---------------------------- MODULE Spec2Model ----------------------------
(***************************************************************************)
(* Model of src/src/with-defer.js: the invocations of the function         *)
(* returned by withDefer(fn, options).  An invocation owns a deferral      *)
(* context (deferQueue, isExecuting), runs the main function, and then     *)
(* drains the queue in executeDeferredFunctions / handleDeferred.          *)
(*                                                                         *)
(* The asynchronous functions are split at their awaits; everything the    *)
(* code does between two awaits is one action.                             *)
(***************************************************************************)
EXTENDS Integers, Sequences, FiniteSets, TLC

(***************************************************************************)
(* Bounds                                                                  *)
(***************************************************************************)
\* number of calls of defer() that register a record
MaxDefer == 2

(***************************************************************************)
(* JavaScript values                                                       *)
(***************************************************************************)
Undef == [t |-> "undefined"]
NullV == [t |-> "null"]
Bool(b) == [t |-> "boolean", b |-> b]
Num(n) == [t |-> "number", finite |-> TRUE, n |-> n]
NonFinite == [t |-> "number", finite |-> FALSE, n |-> 0]
Str(s) == [t |-> "string", s |-> s]
Obj(p) == [t |-> "object", props |-> p]
Fn(name, kind) == [t |-> "function", name |-> name, kind |-> kind]
\* an instance of Error: message is a sequence of strings (its pieces);
\* src tells the error objects apart: the number of the callback that threw
\* it, 0 for the main function, a negative number for the library's own
ErrorObj(msg, src) == [t |-> "error", message |-> msg, src |-> src]
TypeErrorObj(msg) == [t |-> "error", message |-> msg, src |-> -3]
\* a plain (non-Error) value produced by callback or main number src
Val(src) == [t |-> "value", src |-> src]
\* a thrown value that is not an Error (throw "string error")
ThrownString(src) == [t |-> "string", s |-> "string error", src |-> src]

IsNullish(v) == v.t \in {"null", "undefined"}
InstanceOfError(v) == v.t \in {"error", "aggregate"}
\* o[k] of an options object; a missing key reads as undefined
Get(o, k) == IF o.t = "object" /\ k \in DOMAIN o.props THEN o.props[k] ELSE Undef
\* a merge in which the first object wins: { ...l, ...g }
SpreadFirstWins(g, l) ==
    Obj([k \in DOMAIN (IF g.t = "object" THEN g.props ELSE <<>>)
               \cup DOMAIN (IF l.t = "object" THEN l.props ELSE <<>>) |->
            IF g.t = "object" /\ k \in DOMAIN g.props THEN g.props[k] ELSE l.props[k]])

\* { ...g, ...l }: null and undefined spread to nothing
Props(o) == IF o.t = "object" THEN o.props ELSE <<>>
Spread(g, l) ==
    Obj([k \in DOMAIN Props(g) \cup DOMAIN Props(l) |->
            IF k \in DOMAIN Props(l) THEN Props(l)[k] ELSE Props(g)[k]])
\* a ?? d
Coalesce(a, d) == IF IsNullish(a) THEN d ELSE a
\* a truthy test for the values the model uses
Truthy(v) ==
    CASE v.t \in {"undefined", "null"} -> FALSE
      [] v.t = "boolean" -> v.b
      [] v.t = "number" -> (~v.finite) \/ v.n # 0
      [] v.t = "string" -> v.s # ""
      [] OTHER -> TRUE

NoThrow == [t |-> "nothrow"]

(***************************************************************************)
(* Validation                                                              *)
(***************************************************************************)
\* returns the error thrown, or NoThrow
validateOptionsObject(value) ==
    IF value.t # "null" /\ value.t # "object"
    THEN TypeErrorObj(<<"Options", " must be an object or null">>)
    ELSE NoThrow

validateBoolean(value, name) ==
    IF value.t # "undefined" /\ value.t # "boolean"
    THEN TypeErrorObj(<<name, " must be a boolean">>)
    ELSE NoThrow

validateDeferOptions(options) ==
    IF /\ Get(options, "timeout").t # "null"
       /\ Get(options, "timeout").t # "undefined"
       /\ (Get(options, "timeout").t # "number" \/ ~Get(options, "timeout").finite)
    THEN TypeErrorObj(<<"timeout must be a finite number or null">>)
    ELSE IF validateBoolean(Get(options, "debug"), "debug") # NoThrow
    THEN validateBoolean(Get(options, "debug"), "debug")
    ELSE IF validateBoolean(Get(options, "throwOnError"), "throwOnError") # NoThrow
    THEN validateBoolean(Get(options, "throwOnError"), "throwOnError")
    ELSE IF /\ Get(options, "errorReporter").t # "null"
            /\ Get(options, "errorReporter").t # "undefined"
            /\ Get(options, "errorReporter").t # "function"
    THEN TypeErrorObj(<<"errorReporter must be a function or null">>)
    ELSE NoThrow

(***************************************************************************)
(* The environment: what the caller passes in                              *)
(***************************************************************************)
okReporter == Fn("reporter", "reporter")
throwingReporter == Fn("badReporter", "throwingReporter")

\* the options argument of withDefer
GlobalOptionArgs ==
    {NullV,
     Obj(<<>>),
     Obj([throwOnError |-> Bool(TRUE), errorReporter |-> okReporter]),
     Obj([throwOnError |-> Bool(FALSE), errorReporter |-> throwingReporter]),
     Obj([throwOnError |-> Bool(TRUE), errorReporter |-> throwingReporter])}

\* the callbacks passed to defer(): what the callback does when it is called
CallbackKinds == {"returns", "returnsError", "throwsError", "throwsString", "async"}
CallbackName(kind) == IF kind \in {"returns", "async"} THEN "cleanup" ELSE ""
Callback(kind) == Fn(CallbackName(kind), kind)

\* the arguments of the defer() calls: callback and options; Undef is the
\* omitted options argument
DeferArgs ==
    {<<Callback(k), Undef>> : k \in CallbackKinds}
    \cup {<<Callback("async"), Obj([timeout |-> Num(1)])>>}

\* how an asynchronous callback's promise may settle
SettleKinds == {"resolve", "rejectError"}

MainValue == Val(0)
MainError == ErrorObj(<<"Main function error">>, 0)
CancelMarker == Str("deferred function was cancelled")
TimeoutError == ErrorObj(<<"timeout exceeded">>, -1)
ExecutingError ==
    ErrorObj(<<"Cannot call defer() during deferred function execution. Defer must be called before the main function completes.">>, -2)

(***************************************************************************)
(* State                                                                   *)
(***************************************************************************)
VARIABLES
    globalOptions,  \* the options argument withDefer was called with
    pcRun,          \* where the invocation is: idle, main, mainSettled,
                    \* drain, drainSettled, done, aborted
    mainResult,     \* how the main function completed
    isExecuting,    \* createDefer's flag
    deferQueue,     \* the Deque, head first: record numbers
    deferred,       \* the Deferred objects, by record number
    promise,        \* the promise of each record's DeferredResult
    deferredArray,  \* executeDeferredFunctions' Array.from(deferQueue)
    idx,            \* executeDeferredFunctions' loop variable i
    results,        \* executeDeferredFunctions' results
    execThrown,     \* what executeDeferredFunctions threw, or NoThrow
    h,              \* the frame of the handleDeferred call in progress
    timers,         \* records with a pending setTimeout timer
    inflight,       \* records whose callback returned a promise that is
                    \* not settled yet
    outcome,        \* the promise the invocation returned
    \* history, not read by the program:
    deferThrown,    \* what the defer() calls that threw have thrown, and
                    \* in which phase
    invoked,        \* record numbers, in the order their callbacks ran
    reports,        \* the calls made to error reporters, in order
    reached,        \* records handleDeferred was called for
    how,            \* per handled record: the path handleDeferred took
    cancelBefore,   \* records cancel() was called on before handleDeferred
                    \* was called for them
    cancelSeen,     \* the kinds of cancel() calls made so far
    registration,   \* per record: the arguments defer() was called with
    \* the invocations of the wrapped function: the variables above are the
    \* context of invocation cur, parked holds the contexts of the others
    cur,
    parked

progVars == <<globalOptions, pcRun, mainResult, isExecuting, deferQueue,
              deferred, promise, deferredArray, idx, results, execThrown,
              h, timers, inflight, outcome>>
histVars == <<deferThrown, invoked, reports, reached, how, cancelBefore, cancelSeen,
              registration>>
invocationVars == <<cur, parked>>
vars == <<progVars, histVars, invocationVars>>

Pending == [state |-> "pending", value |-> Undef]
Fulfilled(v) == [state |-> "fulfilled", value |-> v]
Rejected(e) == [state |-> "rejected", value |-> e]

IdleFrame ==
    [pc |-> "idle", id |-> 0, index |-> 0, timeoutId |-> FALSE,
     race |-> Pending, byTimer |-> FALSE, result |-> Undef,
     errorReporter |-> NullV, debug |-> Bool(FALSE)]

\* the state of a deferral context before the invocation
Fresh ==
    /\ pcRun = "idle"
    /\ mainResult = [kind |-> "none", value |-> Undef]
    /\ isExecuting = FALSE
    /\ deferQueue = <<>>
    /\ deferred = <<>>
    /\ promise = <<>>
    /\ deferredArray = <<>>
    /\ idx = 0
    /\ results = <<>>
    /\ execThrown = NoThrow
    /\ h = IdleFrame
    /\ timers = {}
    /\ inflight = {}
    /\ outcome = Pending
    /\ deferThrown = {}
    /\ invoked = <<>>
    /\ reports = <<>>
    /\ reached = {}
    /\ how = <<>>
    /\ cancelBefore = {}
    /\ cancelSeen = {}
    /\ registration = <<>>

Init ==
    /\ globalOptions \in GlobalOptionArgs
    /\ Fresh
    /\ cur = 1
    /\ parked = <<>>

(***************************************************************************)
(* withDefer's returned function: createDefer(options), then run(...)      *)
(***************************************************************************)
\* const { debug = false, throwOnError = false } = globalOptions
\* throws a TypeError when globalOptions is null
\* a createDefer that validates the fields of globalOptions
createDeferThrowsOnInvalidField ==
    globalOptions.t = "null" \/ validateDeferOptions(globalOptions) # NoThrow

createDeferThrows == globalOptions.t = "null"
ctxDebug == IF Get(globalOptions, "debug").t = "undefined"
            THEN Bool(FALSE) ELSE Get(globalOptions, "debug")
\* a throwOnError that is on unless it is set
ctxThrowOnErrorDefaultTrue ==
    IF Get(globalOptions, "throwOnError").t = "undefined"
    THEN Bool(TRUE) ELSE Get(globalOptions, "throwOnError")

ctxThrowOnError == IF Get(globalOptions, "throwOnError").t = "undefined"
                   THEN Bool(FALSE) ELSE Get(globalOptions, "throwOnError")

Invoke ==
    /\ pcRun = "idle"
    /\ IF createDeferThrows
       THEN /\ pcRun' = "aborted"
            /\ outcome' = Rejected(TypeErrorObj(<<"Cannot destructure">>))
       ELSE /\ pcRun' = "main"
            /\ outcome' = outcome
    /\ UNCHANGED <<globalOptions, cur, parked, mainResult, isExecuting, deferQueue, deferred,
                   promise, deferredArray, idx, results, execThrown, h, timers,
                   inflight, histVars>>

(***************************************************************************)
(* defer(callback, localOptions)                                           *)
(***************************************************************************)
\* a Deque that adds at the tail
appendAtTail(queue, item) == queue \o <<item>>

\* a prepend that loses the link to the old head
prependUnlinked(queue, item) == <<item>>

\* Deque.prepend
prepend(queue, item) == <<item>> \o queue

\* a defer() without the isExecuting guard
deferThrowsUnguarded(callback, localOptions) ==
    LET lo == IF localOptions.t = "undefined" THEN Obj(<<>>) ELSE localOptions
    IN  IF callback.t # "function"
        THEN TypeErrorObj(<<"callback must be a function">>)
        ELSE IF validateOptionsObject(lo) # NoThrow THEN validateOptionsObject(lo)
        ELSE validateDeferOptions(Spread(globalOptions, lo))

\* a defer() that does not validate the merged options
deferThrowsUnvalidated(callback, localOptions) ==
    LET lo == IF localOptions.t = "undefined" THEN Obj(<<>>) ELSE localOptions
    IN  IF isExecuting THEN ExecutingError
        ELSE IF callback.t # "function"
        THEN TypeErrorObj(<<"callback must be a function">>)
        ELSE validateOptionsObject(lo)

\* what the call throws, or NoThrow
deferThrows(callback, localOptions) ==
    LET lo == IF localOptions.t = "undefined" THEN Obj(<<>>) ELSE localOptions
    IN  IF isExecuting THEN ExecutingError
        ELSE IF callback.t # "function"
        THEN TypeErrorObj(<<"callback must be a function">>)
        ELSE IF validateOptionsObject(lo) # NoThrow THEN validateOptionsObject(lo)
        ELSE validateDeferOptions(Spread(globalOptions, lo))

\* the Deferred object the call builds
newDeferred(callback, localOptions) ==
    LET lo == IF localOptions.t = "undefined" THEN Obj(<<>>) ELSE localOptions
        mergedOptions == Spread(globalOptions, lo)
    IN  [callback |-> callback,
         timeout |-> Coalesce(Get(mergedOptions, "timeout"), NullV),
         functionName |-> IF callback.name # "" THEN callback.name ELSE "anonymous",
         isCancelled |-> FALSE,
         resolve |-> Fn("resolve", "resolve"),
         errorReporter |-> Coalesce(Get(mergedOptions, "errorReporter"), NullV),
         debug |-> Coalesce(Get(mergedOptions, "debug"), Bool(FALSE))]

\* the phase of the invocation, as section 4.4 of the specification names them
Phase ==
    CASE pcRun = "idle" -> "idle"
      [] pcRun \in {"done", "aborted"} -> "settled"
      [] isExecuting -> "draining"
      [] OTHER -> "running"

\* the defer function exists once createDefer has returned it
Defer(callback, localOptions) ==
    /\ pcRun \in {"main", "mainSettled", "drain", "drainSettled", "done"}
    /\ LET id == Len(deferQueue) + 1
           thrown == deferThrows(callback, localOptions)
       IN  IF thrown # NoThrow
           THEN /\ deferThrown' = deferThrown \cup
                      {[thrown |-> thrown, phase |-> Phase, queued |-> Len(deferQueue)]}
                /\ UNCHANGED <<deferQueue, deferred, promise, registration>>
           ELSE /\ Len(deferQueue) < MaxDefer
                /\ deferQueue' = prepend(deferQueue, id)
                /\ deferred' = deferred @@ (id :> newDeferred(callback, localOptions))
                /\ promise' = promise @@ (id :> Pending)
                /\ registration' = registration @@
                      (id :> [callback |-> callback, localOptions |-> localOptions])
                /\ UNCHANGED deferThrown
    /\ UNCHANGED <<globalOptions, cur, parked, pcRun, mainResult, isExecuting, deferredArray,
                   idx, results, execThrown, h, timers, inflight, outcome,
                   invoked, reports, reached, how, cancelBefore, cancelSeen>>

\* a cancel() that flips the flag
toggled(d) == [d EXCEPT !.isCancelled = ~@]

\* the cancel function of a DeferredResult
cancelled(d) == [d EXCEPT !.isCancelled = TRUE]

\* the kinds of a cancel() call: "again" on a record that is cancelled
\* already; "draining" after the drain began and before handleDeferred was
\* called for the record; "finished" after handleDeferred is through with
\* the record
CancelKinds(id) ==
    (IF deferred[id].isCancelled THEN {"again"} ELSE {})
    \cup (IF id \notin reached /\ isExecuting THEN {"draining"} ELSE {})
    \cup (IF id \in DOMAIN how THEN {"finished"} ELSE {})

Cancel(id) ==
    /\ id \in DOMAIN deferred
    /\ deferred' = [deferred EXCEPT ![id] = cancelled(@)]
    /\ cancelBefore' = IF id \in reached THEN cancelBefore ELSE cancelBefore \cup {id}
    /\ cancelSeen' = cancelSeen \cup CancelKinds(id)
    /\ UNCHANGED registration
    /\ UNCHANGED <<globalOptions, cur, parked, pcRun, mainResult, isExecuting, deferQueue,
                   promise, deferredArray, idx, results, execThrown, h, timers,
                   inflight, outcome, deferThrown, invoked, reports, reached, how>>

(***************************************************************************)
(* createErrorMessage, reportError                                         *)
(***************************************************************************)
\* String(v), as the pieces of the string
StringOf(v) ==
    CASE v.t = "string" -> <<v.s>>
      [] v.t = "error" -> <<"Error: ">> \o v.message
      [] OTHER -> <<v.t>>

\* queue is the Deque (record numbers, head first), heap its records
createErrorMessage(queue, heap, index, prefix, suffix) ==
    LET functionName == IF index + 1 \in 1..Len(queue)
                        THEN heap[queue[index + 1]].functionName
                        ELSE "unknown"
        suffixPart == IF suffix # <<>> THEN <<": ">> \o suffix ELSE <<>>
    IN  <<prefix, " in deferred function ", ToString(index), " (",
          functionName, ")">> \o suffixPart

\* whether calling the reporter raises
reporterThrows(errorReporter) == errorReporter.kind = "throwingReporter"

\* a reporter call without the try/catch around it
reporterEscapesUncaught(errorReporter) == TRUE

\* what escapes from the try/catch around the reporter call: nothing
reporterEscapes(errorReporter) == FALSE

\* a reportError that passes over thrown values that are not Errors
reportErrorsOnly(log, id, err, index, action, queue, heap, errorReporter, debug) ==
    IF Truthy(errorReporter) /\ err.t \in {"error", "aggregate"}
    THEN [log |-> Append(log, [reporter |-> errorReporter, err |-> err,
                               index |-> index, message |-> <<action>>,
                               action |-> action, id |-> id]),
          thrown |-> NoThrow]
    ELSE [log |-> log, thrown |-> NoThrow]

\* returns the reporter log after the call, and what the call throws
reportError(log, id, err, index, action, queue, heap, errorReporter, debug) ==
    LET message == createErrorMessage(queue, heap, index, "error",
                       <<action, ": ">> \o
                       (IF InstanceOfError(err) THEN err.message ELSE StringOf(err)))
    IN  IF Truthy(errorReporter)
        THEN [log |-> Append(log, [reporter |-> errorReporter, err |-> err,
                                   index |-> index, message |-> message,
                                   action |-> action, id |-> id]),
              thrown |-> IF reporterThrows(errorReporter) /\ reporterEscapes(errorReporter)
                         THEN ErrorObj(<<"reporter failed">>, -5) ELSE NoThrow]
        ELSE [log |-> log, thrown |-> NoThrow]

(***************************************************************************)
(* handleDeferred                                                          *)
(***************************************************************************)
\* a settle handle that rejects when it is given an error
ResolveOrReject(p, id, v) ==
    IF p[id].state # "pending" THEN p
    ELSE IF InstanceOfError(v) THEN [p EXCEPT ![id] = Rejected(v)]
    ELSE [p EXCEPT ![id] = Fulfilled(v)]

\* resolve(v) of a record's promise: later calls change nothing
Resolve(p, id, v) ==
    IF p[id].state = "pending" THEN [p EXCEPT ![id] = Fulfilled(v)] ELSE p

\* a test that takes every number for a timeout
HasNumericTimeout(timeout) == timeout.t = "number"

\* timeout && timeout > 0
HasPositiveTimeout(timeout) ==
    Truthy(timeout) /\ timeout.t = "number" /\ timeout.finite /\ timeout.n > 0

CallbackError(id) == ErrorObj(<<"Error in Cleanup">>, id)
ReturnedError(id) == ErrorObj(<<"returned, not thrown">>, id)
\* an error of the callback's own whose message is the one of the timer's
CallbackTimeoutMessageError(id) == ErrorObj(<<"timeout exceeded">>, id)

\* a catch block that reports the error and forgets resolve(err)
CatchPathNoResolve(st, id, index, err, errorReporter, debug, byTimer) ==
    LET action == IF InstanceOfError(err) /\ err.message = <<"timeout exceeded">>
                  THEN "timed out" ELSE "failed to execute"
        rep == reportError(st.reports, id, err, index, action, deferQueue,
                           deferred, errorReporter, debug)
    IN  [st EXCEPT
            !.timers = @ \ {id},
            !.reports = rep.log,
            !.how = @ @@ (id :> IF byTimer THEN "timedout" ELSE "failed"),
            !.h = [IdleFrame EXCEPT
                     !.pc = "returned", !.id = id, !.index = index,
                     !.result = IF rep.thrown = NoThrow THEN Fulfilled(err)
                                ELSE Rejected(rep.thrown)]]

\* the state after handleDeferred went through its catch block with err
CatchPath(st, id, index, err, errorReporter, debug, byTimer) ==
    LET action == IF InstanceOfError(err) /\ err.message = <<"timeout exceeded">>
                  THEN "timed out" ELSE "failed to execute"
        rep == reportError(st.reports, id, err, index, action, deferQueue,
                           deferred, errorReporter, debug)
    IN  [st EXCEPT
            !.timers = @ \ {id},
            !.reports = rep.log,
            !.promise = IF rep.thrown = NoThrow THEN Resolve(@, id, err) ELSE @,
            !.how = @ @@ (id :> IF byTimer THEN "timedout" ELSE "failed"),
            !.h = [IdleFrame EXCEPT
                     !.pc = "returned", !.id = id, !.index = index,
                     !.result = IF rep.thrown = NoThrow THEN Fulfilled(err)
                                ELSE Rejected(rep.thrown)]]

\* a handleDeferred that never sees the flag
readCancelledNever(d) == FALSE

\* the value of isCancelled handleDeferred acts on: the one it finds in the
\* record when it is called
readCancelled(d) == d.isCancelled

HandleState ==
    [h |-> h, promise |-> promise, reports |-> reports, invoked |-> invoked,
     inflight |-> inflight, timers |-> timers, how |-> how, reached |-> reached]

\* the call handleDeferred(deferredArray[index], index, deferQueue), up to its
\* await or, when it does not get there, its return
HandleCall(id, index) ==
    LET d == deferred[id]
        st == [HandleState EXCEPT !.reached = @ \cup {id}]
        kind == d.callback.kind
        frame == [IdleFrame EXCEPT !.id = id, !.index = index,
                                   !.errorReporter = d.errorReporter,
                                   !.debug = d.debug]
        ran == [st EXCEPT !.invoked = Append(@, id)]
        timed == HasPositiveTimeout(d.timeout)
    IN  IF readCancelled(d)
        THEN [st EXCEPT !.promise = Resolve(@, id, CancelMarker),
                        !.how = @ @@ (id :> "cancelled"),
                        !.h = [frame EXCEPT !.pc = "returned",
                                            !.result = Fulfilled(CancelMarker)]]
        ELSE CASE kind = "throwsError" ->
                    CatchPath(ran, id, index, CallbackError(id),
                              d.errorReporter, d.debug, FALSE)
               [] kind = "throwsString" ->
                    CatchPath(ran, id, index, ThrownString(id),
                              d.errorReporter, d.debug, FALSE)
               [] kind = "throwsTimeoutMessage" ->
                    CatchPath(ran, id, index, CallbackTimeoutMessageError(id),
                              d.errorReporter, d.debug, FALSE)
               [] kind = "returns" ->
                    [ran EXCEPT !.timers = IF timed THEN @ \cup {id} ELSE @,
                                !.h = [frame EXCEPT !.pc = "race", !.timeoutId = timed,
                                                    !.race = Fulfilled(Val(id))]]
               [] kind = "returnsError" ->
                    [ran EXCEPT !.timers = IF timed THEN @ \cup {id} ELSE @,
                                !.h = [frame EXCEPT !.pc = "race", !.timeoutId = timed,
                                                    !.race = Fulfilled(ReturnedError(id))]]
               [] OTHER ->
                    [ran EXCEPT !.timers = IF timed THEN @ \cup {id} ELSE @,
                                !.inflight = @ \cup {id},
                                !.h = [frame EXCEPT !.pc = "race", !.timeoutId = timed]]

\* a handleDeferred that does not clear the timer when the callback won
HandleAfterRaceKeepsTimer ==
    IF h.race.state = "fulfilled"
    THEN [HandleState EXCEPT
            !.promise = Resolve(@, h.id, h.race.value),
            !.how = @ @@ (h.id :> "success"),
            !.h = [h EXCEPT !.pc = "returned", !.result = Fulfilled(h.race.value)]]
    ELSE CatchPath(HandleState, h.id, h.index, h.race.value,
                   h.errorReporter, h.debug, h.byTimer)

\* a handleDeferred that looks at the record's flag again after the await
HandleAfterRaceRechecks ==
    IF deferred[h.id].isCancelled
    THEN [HandleState EXCEPT
            !.timers = @ \ {h.id},
            !.promise = Resolve(@, h.id, CancelMarker),
            !.how = @ @@ (h.id :> "cancelled"),
            !.h = [h EXCEPT !.pc = "returned", !.result = Fulfilled(CancelMarker)]]
    ELSE IF h.race.state = "fulfilled"
    THEN [HandleState EXCEPT
            !.timers = @ \ {h.id},
            !.promise = Resolve(@, h.id, h.race.value),
            !.how = @ @@ (h.id :> "success"),
            !.h = [h EXCEPT !.pc = "returned", !.result = Fulfilled(h.race.value)]]
    ELSE CatchPath(HandleState, h.id, h.index, h.race.value,
                   h.errorReporter, h.debug, h.byTimer)

\* handleDeferred after its await Promise.race(promises)
HandleAfterRace ==
    IF h.race.state = "fulfilled"
    THEN [HandleState EXCEPT
            !.timers = @ \ {h.id},
            !.promise = Resolve(@, h.id, h.race.value),
            !.how = @ @@ (h.id :> "success"),
            !.h = [h EXCEPT !.pc = "returned", !.result = Fulfilled(h.race.value)]]
    ELSE CatchPath(HandleState, h.id, h.index, h.race.value,
                   h.errorReporter, h.debug, h.byTimer)

ApplyHandle(st) ==
    /\ h' = st.h
    /\ promise' = st.promise
    /\ reports' = st.reports
    /\ invoked' = st.invoked
    /\ inflight' = st.inflight
    /\ timers' = st.timers
    /\ how' = st.how
    /\ reached' = st.reached

handleVars == <<h, promise, reports, invoked, inflight, timers, how, reached>>

HandleResume ==
    /\ pcRun = "drain"
    /\ h.pc = "race"
    /\ h.race.state # "pending"
    /\ ApplyHandle(HandleAfterRace)
    /\ UNCHANGED <<globalOptions, cur, parked, pcRun, mainResult, isExecuting, deferQueue,
                   deferred, deferredArray, idx, results, execThrown, outcome,
                   deferThrown, cancelBefore, cancelSeen, registration>>

\* a timer whose callback does not reject the race
TimerFireLost(id) ==
    /\ id \in timers
    /\ timers' = timers \ {id}
    /\ UNCHANGED <<globalOptions, cur, parked, pcRun, mainResult, isExecuting, deferQueue,
                   deferred, promise, deferredArray, idx, results, execThrown, h,
                   inflight, outcome, histVars>>

\* the setTimeout callback of handleDeferred: reject(new Error("timeout exceeded"))
TimerFire(id) ==
    /\ id \in timers
    /\ timers' = timers \ {id}
    /\ h' = IF h.pc = "race" /\ h.id = id /\ h.race.state = "pending"
            THEN [h EXCEPT !.race = Rejected(TimeoutError), !.byTimer = TRUE]
            ELSE h
    /\ UNCHANGED <<globalOptions, cur, parked, pcRun, mainResult, isExecuting, deferQueue,
                   deferred, promise, deferredArray, idx, results, execThrown,
                   inflight, outcome, histVars>>

\* the promise an asynchronous callback returned settles
SettleValue(id, kind) ==
    CASE kind = "resolve" -> Fulfilled(Val(id))
      [] kind = "rejectError" -> Rejected(CallbackError(id))
      [] OTHER -> Rejected(ThrownString(id))

\* a race that the last promise to settle wins
CallbackSettleLastWins(id, kind) ==
    /\ id \in inflight
    /\ inflight' = inflight \ {id}
    /\ h' = IF h.pc = "race" /\ h.id = id
            THEN [h EXCEPT !.race = SettleValue(id, kind), !.byTimer = FALSE]
            ELSE h
    /\ UNCHANGED <<globalOptions, cur, parked, pcRun, mainResult, isExecuting, deferQueue,
                   deferred, promise, deferredArray, idx, results, execThrown,
                   timers, outcome, histVars>>

CallbackSettle(id, kind) ==
    /\ id \in inflight
    /\ inflight' = inflight \ {id}
    /\ h' = IF h.pc = "race" /\ h.id = id /\ h.race.state = "pending"
            THEN [h EXCEPT !.race = SettleValue(id, kind)]
            ELSE h
    /\ UNCHANGED <<globalOptions, cur, parked, pcRun, mainResult, isExecuting, deferQueue,
                   deferred, promise, deferredArray, idx, results, execThrown,
                   timers, outcome, histVars>>

(***************************************************************************)
(* executeDeferredFunctions, handleErrors, run                             *)
(***************************************************************************)
\* which results handleErrors keeps
isCountedError(result) == InstanceOfError(result)

\* a handleErrors that numbers the errors after it has filtered them
handleErrorsIndexAfterFilter(rs, queue, heap, debug) ==
    LET kept == SelectSeq([j \in 1..Len(rs) |-> rs[j].value],
                          LAMBDA result : isCountedError(result))
        wrap(result, index) ==
            LET message == createErrorMessage(queue, heap, index,
                                              "promise rejection", <<>>)
            IN  [t |-> "error", message |-> message \o <<": ">> \o result.message,
                 src |-> -4, cause |-> result]
    IN  [j \in 1..Len(kept) |-> wrap(kept[j], j - 1)]

\* results are the settled values of allSettled; heap the records
handleErrors(rs, queue, heap, debug) ==
    LET resultWithIndex ==
            [j \in 1..Len(rs) |-> [result |-> rs[j].value, index |-> j - 1]]
        kept == SelectSeq(resultWithIndex, LAMBDA it : isCountedError(it.result))
        wrap(it) ==
            LET message == createErrorMessage(queue, heap, it.index,
                                              "promise rejection", <<>>)
            IN  IF InstanceOfError(it.result)
                THEN [t |-> "error", message |-> message \o <<": ">> \o it.result.message,
                      src |-> -4, cause |-> it.result]
                ELSE [t |-> "error", message |-> message \o <<": ">> \o StringOf(it.result),
                      src |-> -4, cause |-> Undef]
    IN  [j \in 1..Len(kept) |-> wrap(kept[j])]

AggregateError(errors) ==
    [t |-> "aggregate", errors |-> errors,
     message |-> <<ToString(Len(errors)), " deferred functions failed">>, src |-> -6]

\* the clean-up loop over deferQueue
released(d) == [d EXCEPT !.callback = NullV, !.resolve = NullV, !.errorReporter = NullV]

\* executeDeferredFunctions after its loop, rs being the final results
\* a drain that throws the aggregate error before its clean-up loop
FinishDrainThrowsBeforeRelease(rs) ==
    LET errors == handleErrors(rs, deferQueue, deferred, ctxDebug)
        throws == Truthy(ctxThrowOnError) /\ Len(errors) > 0
    IN  /\ deferred' = [id \in DOMAIN deferred |->
                          IF ~throws /\ \E k \in 1..Len(deferQueue) : deferQueue[k] = id
                          THEN released(deferred[id]) ELSE deferred[id]]
        /\ execThrown' = IF throws THEN AggregateError(errors) ELSE NoThrow
        /\ pcRun' = "drainSettled"

\* a drain that also raises when a failed record was registered with
\* throwOnError true, and leaves out the records registered with false
FinishDrainLocalThrowOnError(rs) ==
    LET errors == handleErrors(rs, deferQueue, deferred, ctxDebug)
        asked(id) == Get(registration[id].localOptions, "throwOnError")
    IN  /\ deferred' = [id \in DOMAIN deferred |->
                          IF \E k \in 1..Len(deferQueue) : deferQueue[k] = id
                          THEN released(deferred[id]) ELSE deferred[id]]
        /\ execThrown' =
              IF /\ Len(errors) > 0
                 /\ \/ \E id \in DOMAIN registration : asked(id) = Bool(TRUE)
                    \/ /\ Truthy(ctxThrowOnError)
                       /\ \E id \in DOMAIN registration : asked(id) # Bool(FALSE)
              THEN AggregateError(errors) ELSE NoThrow
        /\ pcRun' = "drainSettled"

FinishDrain(rs) ==
    LET errors == handleErrors(rs, deferQueue, deferred, ctxDebug)
    IN  /\ deferred' = [id \in DOMAIN deferred |->
                          IF \E k \in 1..Len(deferQueue) : deferQueue[k] = id
                          THEN released(deferred[id]) ELSE deferred[id]]
        /\ execThrown' = IF Truthy(ctxThrowOnError) /\ Len(errors) > 0
                         THEN AggregateError(errors) ELSE NoThrow
        /\ pcRun' = "drainSettled"

\* a run() without the finally block: no drain when the main function threw
StartDrainOnReturnOnly ==
    IF mainResult'.kind = "throw"
    THEN /\ pcRun' = "drainSettled"
         /\ UNCHANGED <<isExecuting, deferredArray, results, idx, deferred,
                        execThrown, handleVars>>
    ELSE /\ isExecuting' = TRUE
         /\ deferredArray' = deferQueue
         /\ results' = <<>>
         /\ idx' = 0
         /\ IF Len(deferQueue) = 0
            THEN FinishDrain(<<>>) /\ UNCHANGED handleVars
            ELSE /\ ApplyHandle(HandleCall(deferQueue[1], 0))
                 /\ pcRun' = "drain"
                 /\ UNCHANGED <<deferred, execThrown>>

\* an executeDeferredFunctions that does not set isExecuting
StartDrainUnflagged ==
    /\ UNCHANGED isExecuting
    /\ deferredArray' = deferQueue
    /\ results' = <<>>
    /\ idx' = 0
    /\ IF Len(deferQueue) = 0
       THEN FinishDrain(<<>>) /\ UNCHANGED handleVars
       ELSE /\ ApplyHandle(HandleCall(deferQueue[1], 0))
            /\ pcRun' = "drain"
            /\ UNCHANGED <<deferred, execThrown>>

\* executeDeferredFunctions from its first line to its first await
StartDrain ==
    /\ isExecuting' = TRUE
    /\ deferredArray' = deferQueue
    /\ results' = <<>>
    /\ idx' = 0
    /\ IF Len(deferQueue) = 0
       THEN FinishDrain(<<>>) /\ UNCHANGED handleVars
       ELSE /\ ApplyHandle(HandleCall(deferQueue[1], 0))
            /\ pcRun' = "drain"
            /\ UNCHANGED <<deferred, execThrown>>

\* the main function returns a value, or the promise it returned fulfils
MainReturn ==
    /\ pcRun = "main"
    /\ pcRun' = "mainSettled"
    /\ mainResult' = [kind |-> "return", value |-> MainValue]
    /\ UNCHANGED <<globalOptions, cur, parked, isExecuting, deferQueue, deferred, promise,
                   deferredArray, idx, results, execThrown, h, timers, inflight,
                   outcome, histVars>>

\* the promise the main function returned rejects
MainReject ==
    /\ pcRun = "main"
    /\ pcRun' = "mainSettled"
    /\ mainResult' = [kind |-> "throw", value |-> MainError]
    /\ UNCHANGED <<globalOptions, cur, parked, isExecuting, deferQueue, deferred, promise,
                   deferredArray, idx, results, execThrown, h, timers, inflight,
                   outcome, histVars>>

\* the main function throws synchronously: run's finally block starts in
\* the same step
MainThrowSync ==
    /\ pcRun = "main"
    /\ mainResult' = [kind |-> "throw", value |-> MainError]
    /\ StartDrain
    /\ UNCHANGED <<globalOptions, cur, parked, deferQueue, outcome, deferThrown, cancelBefore, cancelSeen, registration>>

\* run resumes after await fn() and enters its finally block
ExecuteStart ==
    /\ pcRun = "mainSettled"
    /\ UNCHANGED <<globalOptions, cur, parked, mainResult, deferQueue, outcome, deferThrown,
                   cancelBefore, cancelSeen, registration>>
    /\ StartDrain

\* a loop that gives up at the first record that failed
LoopContinueStopsOnFailure ==
    /\ pcRun = "drain"
    /\ h.pc = "returned"
    /\ LET rs == Append(results, h.result)
           n == idx + 1
       IN  /\ results' = rs
           /\ idx' = n
           /\ IF n < Len(deferredArray) /\ how[h.id] \notin {"failed", "timedout"}
              THEN /\ ApplyHandle(HandleCall(deferredArray[n + 1], n))
                   /\ UNCHANGED <<pcRun, deferred, execThrown>>
              ELSE /\ FinishDrain(rs)
                   /\ h' = IdleFrame
                   /\ UNCHANGED <<promise, reports, invoked, inflight, timers,
                                  how, reached>>
    /\ UNCHANGED <<globalOptions, cur, parked, mainResult, isExecuting, deferQueue,
                   deferredArray, outcome, deferThrown, cancelBefore, cancelSeen, registration>>

\* a loop that does not await the handling of a record before it starts the
\* next one
LoopContinueEager ==
    /\ pcRun = "drain"
    /\ h.pc \in {"race", "returned"}
    /\ LET rs == Append(results, IF h.pc = "returned" THEN h.result
                                 ELSE Fulfilled(Undef))
           n == idx + 1
       IN  /\ results' = rs
           /\ idx' = n
           /\ IF n < Len(deferredArray)
              THEN /\ ApplyHandle(HandleCall(deferredArray[n + 1], n))
                   /\ UNCHANGED <<pcRun, deferred, execThrown>>
              ELSE /\ FinishDrain(rs)
                   /\ h' = IdleFrame
                   /\ UNCHANGED <<promise, reports, invoked, inflight, timers,
                                  how, reached>>
    /\ UNCHANGED <<globalOptions, cur, parked, mainResult, isExecuting, deferQueue,
                   deferredArray, outcome, deferThrown, cancelBefore, cancelSeen, registration>>

\* executeDeferredFunctions resumes after await Promise.allSettled([...])
LoopContinue ==
    /\ pcRun = "drain"
    /\ h.pc = "returned"
    /\ LET rs == Append(results, h.result)
           n == idx + 1
       IN  /\ results' = rs
           /\ idx' = n
           /\ IF n < Len(deferredArray)
              THEN /\ ApplyHandle(HandleCall(deferredArray[n + 1], n))
                   /\ UNCHANGED <<pcRun, deferred, execThrown>>
              ELSE /\ FinishDrain(rs)
                   /\ h' = IdleFrame
                   /\ UNCHANGED <<promise, reports, invoked, inflight, timers,
                                  how, reached>>
    /\ UNCHANGED <<globalOptions, cur, parked, mainResult, isExecuting, deferQueue,
                   deferredArray, outcome, deferThrown, cancelBefore, cancelSeen, registration>>

\* a run() that forgets the return value
runCompletionNoValue(main, thrown) ==
    IF thrown # NoThrow THEN Rejected(thrown)
    ELSE IF main.kind = "throw" THEN Rejected(main.value)
    ELSE Fulfilled(Undef)

\* how run completes: what its try/finally lets through
runCompletion(main, thrown) ==
    IF thrown # NoThrow THEN Rejected(thrown)
    ELSE IF main.kind = "throw" THEN Rejected(main.value)
    ELSE Fulfilled(main.value)

\* a run() that does not await executeDeferredFunctions: it settles while the
\* drain is under way
RunFinishWithoutAwait ==
    /\ pcRun \in {"drain", "drainSettled"}
    /\ pcRun' = "done"
    /\ outcome' = runCompletion(mainResult, execThrown)
    /\ UNCHANGED <<globalOptions, cur, parked, mainResult, isExecuting, deferQueue, deferred,
                   promise, deferredArray, idx, results, execThrown, h, timers,
                   inflight, histVars>>

\* run resumes after await executeDeferredFunctions()
RunFinish ==
    /\ pcRun = "drainSettled"
    /\ pcRun' = "done"
    /\ outcome' = runCompletion(mainResult, execThrown)
    /\ UNCHANGED <<globalOptions, cur, parked, mainResult, isExecuting, deferQueue, deferred,
                   promise, deferredArray, idx, results, execThrown, h, timers,
                   inflight, histVars>>

Next ==
    \/ Invoke
    \/ \E args \in DeferArgs : Defer(args[1], args[2])
    \/ \E id \in DOMAIN deferred : Cancel(id)
    \/ MainReturn
    \/ MainReject
    \/ MainThrowSync
    \/ ExecuteStart
    \/ HandleResume
    \/ \E id \in timers : TimerFire(id)
    \/ \E id \in inflight, kind \in SettleKinds : CallbackSettle(id, kind)
    \/ LoopContinue
    \/ RunFinish

Spec == Init /\ [][Next]_vars

(***************************************************************************)
(* The same invocation with records of every kind of timeout               *)
(***************************************************************************)
TimeoutGlobalArgs ==
    {Obj([errorReporter |-> okReporter]),
     Obj([errorReporter |-> okReporter, timeout |-> Num(1)])}

TimeoutValues == {NullV, Num(0), Num(-1), Num(1)}

TimeoutDeferArgs ==
    {<<Callback("async"), Undef>>}
    \cup {<<Callback("async"), Obj([timeout |-> v])>> : v \in TimeoutValues}

InitTimeouts ==
    /\ globalOptions \in TimeoutGlobalArgs
    /\ Fresh
    /\ cur = 1
    /\ parked = <<>>

NextTimeouts ==
    \/ Invoke
    \/ \E args \in TimeoutDeferArgs : Defer(args[1], args[2])
    \/ \E id \in DOMAIN deferred : Cancel(id)
    \/ MainReturn
    \/ MainReject
    \/ MainThrowSync
    \/ ExecuteStart
    \/ HandleResume
    \/ \E id \in timers : TimerFire(id)
    \/ \E id \in inflight, kind \in SettleKinds : CallbackSettle(id, kind)
    \/ LoopContinue
    \/ RunFinish

SpecTimeouts == InitTimeouts /\ [][NextTimeouts]_vars

(***************************************************************************)
(* Several invocations of the function withDefer returned.  Each call of   *)
(* it calls createDefer, whose deferQueue and isExecuting are local to the *)
(* call; fn and options belong to withDefer and are common to the calls.   *)
(***************************************************************************)
NumInvocations == 2
\* number of records an invocation registers when several invocations run
MaxDeferEach == 1
Invocations == 1..NumInvocations

\* the context of the invocation the variables show, as one value
Context ==
    [pcRun |-> pcRun,
     mainResult |-> mainResult,
     isExecuting |-> isExecuting,
     deferQueue |-> deferQueue,
     deferred |-> deferred,
     promise |-> promise,
     deferredArray |-> deferredArray,
     idx |-> idx,
     results |-> results,
     execThrown |-> execThrown,
     h |-> h,
     timers |-> timers,
     inflight |-> inflight,
     outcome |-> outcome,
     deferThrown |-> deferThrown,
     invoked |-> invoked,
     reports |-> reports,
     reached |-> reached,
     how |-> how,
     cancelBefore |-> cancelBefore,
     cancelSeen |-> cancelSeen,
     registration |-> registration]

\* the context of an invocation that has not been called yet
FreshContext ==
    [pcRun |-> "idle",
     mainResult |-> [kind |-> "none", value |-> Undef],
     isExecuting |-> FALSE,
     deferQueue |-> <<>>,
     deferred |-> <<>>,
     promise |-> <<>>,
     deferredArray |-> <<>>,
     idx |-> 0,
     results |-> <<>>,
     execThrown |-> NoThrow,
     h |-> IdleFrame,
     timers |-> {},
     inflight |-> {},
     outcome |-> Pending,
     deferThrown |-> {},
     invoked |-> <<>>,
     reports |-> <<>>,
     reached |-> {},
     how |-> <<>>,
     cancelBefore |-> {},
     cancelSeen |-> {},
     registration |-> <<>>]

\* the context of invocation i
View(i) == IF i = cur THEN Context ELSE parked[i]

\* a createDefer called once, in withDefer: one queue, one flag and one set
\* of records for all the invocations
SwitchSharingQueue(j) ==
    /\ j \in DOMAIN parked
    /\ cur' = j
    /\ parked' = [k \in (DOMAIN parked \ {j}) \cup {cur} |->
                      IF k = cur THEN Context ELSE parked[k]]
    /\ pcRun' = parked[j].pcRun
    /\ mainResult' = parked[j].mainResult
    /\ deferredArray' = parked[j].deferredArray
    /\ idx' = parked[j].idx
    /\ results' = parked[j].results
    /\ execThrown' = parked[j].execThrown
    /\ h' = parked[j].h
    /\ timers' = parked[j].timers
    /\ inflight' = parked[j].inflight
    /\ outcome' = parked[j].outcome
    /\ deferThrown' = parked[j].deferThrown
    /\ invoked' = parked[j].invoked
    /\ reports' = parked[j].reports
    /\ reached' = parked[j].reached
    /\ how' = parked[j].how
    /\ cancelBefore' = parked[j].cancelBefore
    /\ cancelSeen' = parked[j].cancelSeen
    /\ registration' = parked[j].registration
    /\ UNCHANGED <<globalOptions, isExecuting, deferQueue, deferred, promise>>

\* the next step is taken by invocation j; every variable but the options
\* belongs to the call
Switch(j) ==
    /\ j \in DOMAIN parked
    /\ cur' = j
    /\ parked' = [k \in (DOMAIN parked \ {j}) \cup {cur} |->
                      IF k = cur THEN Context ELSE parked[k]]
    /\ pcRun' = parked[j].pcRun
    /\ mainResult' = parked[j].mainResult
    /\ isExecuting' = parked[j].isExecuting
    /\ deferQueue' = parked[j].deferQueue
    /\ deferred' = parked[j].deferred
    /\ promise' = parked[j].promise
    /\ deferredArray' = parked[j].deferredArray
    /\ idx' = parked[j].idx
    /\ results' = parked[j].results
    /\ execThrown' = parked[j].execThrown
    /\ h' = parked[j].h
    /\ timers' = parked[j].timers
    /\ inflight' = parked[j].inflight
    /\ outcome' = parked[j].outcome
    /\ deferThrown' = parked[j].deferThrown
    /\ invoked' = parked[j].invoked
    /\ reports' = parked[j].reports
    /\ reached' = parked[j].reached
    /\ how' = parked[j].how
    /\ cancelBefore' = parked[j].cancelBefore
    /\ cancelSeen' = parked[j].cancelSeen
    /\ registration' = parked[j].registration
    /\ UNCHANGED <<globalOptions>>

\* the callbacks of invocation i carry its number in their names
InvocationName(i) == "cleanup" \o ToString(i)
InvocationCallbacks(i) == {Fn(InvocationName(i), "async")}

InitInvocations ==
    /\ globalOptions = Obj(<<>>)
    /\ Fresh
    /\ cur = 1
    /\ parked = [i \in Invocations \ {1} |-> FreshContext]

\* no record has a timeout here, so no timer is ever set
NextInvocations ==
    \/ Invoke
    \/ \E callback \in InvocationCallbacks(cur) :
          /\ isExecuting \/ Len(deferQueue) < MaxDeferEach
          /\ Defer(callback, Undef)
    \/ \E id \in DOMAIN deferred : Cancel(id)
    \/ MainReturn
    \/ MainReject
    \/ MainThrowSync
    \/ ExecuteStart
    \/ HandleResume
    \/ \E id \in inflight, kind \in SettleKinds : CallbackSettle(id, kind)
    \/ LoopContinue
    \/ RunFinish
    \/ \E j \in Invocations : Switch(j)

SpecInvocations == InitInvocations /\ [][NextInvocations]_vars

(***************************************************************************)
(* Nesting: the main function of invocation Outer calls the function       *)
(* another withDefer returned, invocation Inner, and awaits its promise    *)
(***************************************************************************)
Outer == 1
Inner == 2

\* the main function of Outer is not waiting for Inner: it has not called it
\* or the promise Inner returned has settled
InnerAwaited == cur = Outer => View(Inner).pcRun \in {"idle", "done"}

InitNested == InitInvocations

\* no record has a timeout here, so no timer is ever set
NextNested ==
    \/ /\ cur = Inner => View(Outer).pcRun = "main"
       /\ Invoke
    \/ \E callback \in InvocationCallbacks(cur) :
          /\ isExecuting \/ Len(deferQueue) < MaxDeferEach
          /\ Defer(callback, Undef)
    \/ \E id \in DOMAIN deferred : Cancel(id)
    \/ InnerAwaited /\ MainReturn
    \/ InnerAwaited /\ MainReject
    \/ /\ cur = Outer => View(Inner).pcRun = "idle"
       /\ MainThrowSync
    \/ ExecuteStart
    \/ HandleResume
    \/ \E id \in inflight, kind \in SettleKinds : CallbackSettle(id, kind)
    \/ LoopContinue
    \/ RunFinish
    \/ \E j \in Invocations : Switch(j)

SpecNested == InitNested /\ [][NextNested]_vars

(***************************************************************************)
(* One invocation whose record takes its options from the call of          *)
(* withDefer, from the call of defer(), or from both                       *)
(***************************************************************************)
localReporter == Fn("localReporter", "reporter")

OptionGlobalArgs ==
    {Obj(<<>>),
     Obj([errorReporter |-> okReporter, timeout |-> Num(1), debug |-> Bool(TRUE)]),
     Obj([errorReporter |-> throwingReporter, throwOnError |-> Bool(TRUE)])}

\* the options argument of defer(): omitted, null, or an object
OptionLocalArgs ==
    {Undef, NullV,
     Obj([errorReporter |-> localReporter]),
     Obj([errorReporter |-> NullV]),
     Obj([timeout |-> NullV]),
     Obj([timeout |-> Undef]),
     Obj([timeout |-> Num(2)]),
     Obj([debug |-> Bool(FALSE)]),
     Obj([errorReporter |-> localReporter, timeout |-> Num(0), debug |-> Bool(TRUE)])}

OptionCallbackKinds == {"returns", "throwsError", "throwsString", "async"}

InitOptions ==
    /\ globalOptions \in OptionGlobalArgs
    /\ Fresh
    /\ cur = 1
    /\ parked = <<>>

NextOptions ==
    \/ Invoke
    \/ \E kind \in OptionCallbackKinds, localOptions \in OptionLocalArgs :
          /\ isExecuting \/ Len(deferQueue) < MaxDeferEach
          /\ Defer(Callback(kind), localOptions)
    \/ \E id \in DOMAIN deferred : Cancel(id)
    \/ MainReturn
    \/ MainReject
    \/ MainThrowSync
    \/ ExecuteStart
    \/ HandleResume
    \/ \E id \in timers : TimerFire(id)
    \/ \E id \in inflight, kind \in SettleKinds : CallbackSettle(id, kind)
    \/ LoopContinue
    \/ RunFinish

SpecOptions == InitOptions /\ [][NextOptions]_vars

(***************************************************************************)
(* One invocation whose main function also calls defer() with arguments    *)
(* that fail validation                                                    *)
(***************************************************************************)
MaxThrows == 2

\* the options of withDefer: none, or a reporter and a debug field that no
\* call of defer() accepts unless it overrides it
InvalidGlobalArgs ==
    {Obj(<<>>),
     Obj([errorReporter |-> okReporter, debug |-> Str("yes")]),
     Obj([timeout |-> NonFinite])}

\* arguments of defer(): valid ones, and one for each validation that fails
RegistrationArgs ==
    {<<Callback("returns"), Undef>>,
     <<Callback("throwsError"), Obj([debug |-> Bool(TRUE)])>>,
     <<Callback("throwsError"), NullV>>,
     <<Callback("throwsError"), Obj([timeout |-> Num(0)])>>,
     <<Str("not a function"), Undef>>,
     <<Callback("returns"), Str("invalid")>>,
     <<Callback("returns"), Obj([timeout |-> Str("1000")])>>,
     <<Callback("returns"), Obj([timeout |-> NonFinite, debug |-> Bool(FALSE)])>>,
     <<Callback("returns"), Obj([debug |-> Str("true")])>>,
     <<Callback("returns"), Obj([debug |-> Bool(FALSE), throwOnError |-> Num(1)])>>,
     <<Callback("returns"), Obj([debug |-> Bool(FALSE), errorReporter |-> Str("reporter")])>>}

InitInvalid ==
    /\ globalOptions \in InvalidGlobalArgs
    /\ Fresh
    /\ cur = 1
    /\ parked = <<>>

NextInvalid ==
    \/ Invoke
    \/ \E a \in RegistrationArgs :
          /\ IF deferThrows(a[1], a[2]) # NoThrow
             THEN Cardinality(deferThrown) < MaxThrows
             ELSE Len(deferQueue) < MaxDeferEach
          /\ Defer(a[1], a[2])
    \/ \E id \in DOMAIN deferred : Cancel(id)
    \/ MainReturn
    \/ MainReject
    \/ MainThrowSync
    \/ ExecuteStart
    \/ HandleResume
    \/ LoopContinue
    \/ RunFinish

SpecInvalid == InitInvalid /\ [][NextInvalid]_vars

(***************************************************************************)
(* One invocation under the scheduling of the event loop: a continuation   *)
(* that is ready runs, and a timer that is pending fires.  Whether the     *)
(* main function completes and whether a callback settles is left to the   *)
(* caller's code.                                                          *)
(***************************************************************************)
LiveGlobalArgs == {Obj(<<>>), Obj([throwOnError |-> Bool(TRUE), timeout |-> Num(1)])}

LiveDeferArgs ==
    {<<Callback("async"), Undef>>,
     <<Callback("async"), Obj([timeout |-> Num(1)])>>,
     <<Callback("throwsError"), Undef>>}

InitLive ==
    /\ globalOptions \in LiveGlobalArgs
    /\ Fresh
    /\ cur = 1
    /\ parked = <<>>

\* the steps the event loop takes on its own: the continuations of run,
\* executeDeferredFunctions and handleDeferred, and the timers
Scheduled ==
    \/ ExecuteStart
    \/ HandleResume
    \/ LoopContinue
    \/ RunFinish
    \/ \E id \in timers : TimerFire(id)

NextLive ==
    \/ Invoke
    \/ \E args \in LiveDeferArgs : Defer(args[1], args[2])
    \/ \E id \in DOMAIN deferred : Cancel(id)
    \/ MainReturn
    \/ MainReject
    \/ MainThrowSync
    \/ \E id \in inflight, kind \in SettleKinds : CallbackSettle(id, kind)
    \/ Scheduled

SpecLive == InitLive /\ [][NextLive]_vars /\ WF_vars(Scheduled)

(***************************************************************************)
(* One invocation whose callbacks may throw an error that carries the      *)
(* message of the timer's error                                            *)
(***************************************************************************)
ClassifyGlobalArgs ==
    {Obj([errorReporter |-> okReporter]),
     Obj([errorReporter |-> okReporter, timeout |-> Num(1)])}

ClassifyDeferArgs ==
    {<<Callback("throwsTimeoutMessage"), Undef>>,
     <<Callback("throwsError"), Undef>>,
     <<Callback("async"), Undef>>}

InitClassify ==
    /\ globalOptions \in ClassifyGlobalArgs
    /\ Fresh
    /\ cur = 1
    /\ parked = <<>>

NextClassify ==
    \/ Invoke
    \/ \E args \in ClassifyDeferArgs : Defer(args[1], args[2])
    \/ \E id \in DOMAIN deferred : Cancel(id)
    \/ MainReturn
    \/ MainReject
    \/ MainThrowSync
    \/ ExecuteStart
    \/ HandleResume
    \/ \E id \in timers : TimerFire(id)
    \/ \E id \in inflight, kind \in SettleKinds : CallbackSettle(id, kind)
    \/ LoopContinue
    \/ RunFinish

SpecClassify == InitClassify /\ [][NextClassify]_vars

(***************************************************************************)
(* One invocation whose callbacks have names of their own                  *)
(***************************************************************************)
LabelGlobalArgs == {Obj([throwOnError |-> Bool(TRUE), errorReporter |-> okReporter])}

LabelDeferArgs ==
    {<<Fn("alpha", "throwsError"), Undef>>,
     <<Fn("beta", "async"), Undef>>,
     <<Fn("gamma", "returns"), Undef>>,
     <<Fn("", "throwsError"), Undef>>,
     <<Fn("delta", "async"), Obj([timeout |-> Num(1)])>>}

InitLabels ==
    /\ globalOptions \in LabelGlobalArgs
    /\ Fresh
    /\ cur = 1
    /\ parked = <<>>

NextLabels ==
    \/ Invoke
    \/ \E args \in LabelDeferArgs : Defer(args[1], args[2])
    \/ \E id \in DOMAIN deferred : Cancel(id)
    \/ MainReturn
    \/ MainReject
    \/ MainThrowSync
    \/ ExecuteStart
    \/ HandleResume
    \/ \E id \in timers : TimerFire(id)
    \/ \E id \in inflight, kind \in SettleKinds : CallbackSettle(id, kind)
    \/ LoopContinue
    \/ RunFinish

SpecLabels == InitLabels /\ [][NextLabels]_vars

(***************************************************************************)
(* One invocation whose records are registered with a throwOnError of      *)
(* their own                                                               *)
(***************************************************************************)
ThrowOnErrorGlobalArgs ==
    {Obj(<<>>), Obj([throwOnError |-> Bool(FALSE)]), Obj([throwOnError |-> Bool(TRUE)])}

ThrowOnErrorDeferArgs ==
    {<<Callback("throwsError"), Undef>>,
     <<Callback("throwsError"), Obj([throwOnError |-> Bool(TRUE)])>>,
     <<Callback("throwsError"), Obj([throwOnError |-> Bool(FALSE)])>>,
     <<Callback("returns"), Obj([throwOnError |-> Bool(TRUE)])>>,
     <<Callback("throwsError"), Obj([throwOnError |-> Str("yes")])>>}

InitThrowOnError ==
    /\ globalOptions \in ThrowOnErrorGlobalArgs
    /\ Fresh
    /\ cur = 1
    /\ parked = <<>>

NextThrowOnError ==
    \/ Invoke
    \/ \E args \in ThrowOnErrorDeferArgs : Defer(args[1], args[2])
    \/ \E id \in DOMAIN deferred : Cancel(id)
    \/ MainReturn
    \/ MainReject
    \/ MainThrowSync
    \/ ExecuteStart
    \/ HandleResume
    \/ LoopContinue
    \/ RunFinish

SpecThrowOnError == InitThrowOnError /\ [][NextThrowOnError]_vars

TypeOK ==
    /\ pcRun \in {"idle", "main", "mainSettled", "drain", "drainSettled", "done", "aborted"}
    /\ isExecuting \in BOOLEAN
    /\ idx \in 0..MaxDefer
    /\ timers \subseteq DOMAIN deferred
    /\ inflight \subseteq DOMAIN deferred

(***************************************************************************)
(* Properties                                                              *)
(***************************************************************************)
Range(seq) == {seq[k] : k \in 1..Len(seq)}
Registered == DOMAIN deferred
\* records are numbered in registration order
ReverseOfRegistration(n) == [k \in 1..n |-> n + 1 - k]
\* the records that ended in failure: handleDeferred went through its catch
\* block for them
Failed == {id \in DOMAIN how : how[id] \in {"failed", "timedout"}}
ReportsFor(id) == {k \in 1..Len(reports) : reports[k].id = id}

\* C1: when no record is cancelled, fails or times out, the callbacks run
\* during the drain in exactly the reverse of the registration order: the
\* k-th callback to run is the k-th most recently registered, and once the
\* invocation has settled all of them have run.
C1_ReverseOrder ==
    (cancelBefore = {} /\ Failed = {}) =>
        /\ \A k \in 1..Len(invoked) : invoked[k] = Len(deferQueue) + 1 - k
        /\ pcRun = "done" => invoked = ReverseOfRegistration(Cardinality(Registered))

C1_Witness ==
    /\ pcRun = "done"
    /\ cancelBefore = {} /\ Failed = {}
    /\ Cardinality(Registered) = MaxDefer
    /\ invoked = ReverseOfRegistration(MaxDefer)

\* C2: the drain runs on every exit path of the main function: no callback
\* runs before the main function has completed, and when the invocation's
\* promise settles, the callback of every registered record that was not
\* cancelled before the drain reached it has been invoked, whether the main
\* function returned or threw.
C2_DrainOnEveryExit ==
    /\ pcRun \in {"idle", "main", "mainSettled"} => invoked = <<>>
    /\ pcRun = "done" =>
          \A id \in Registered : id \notin cancelBefore => id \in Range(invoked)

C2_Witness ==
    /\ pcRun = "done"
    /\ mainResult.kind = "throw"
    /\ outcome.state = "rejected"
    /\ Len(invoked) = MaxDefer

\* C3: when the main function raises an error, the invocation rejects with
\* that error, also when throwOnError is true and records have failed.
C3_MainErrorWins ==
    (pcRun = "done" /\ mainResult.kind = "throw") =>
        outcome = Rejected(mainResult.value)

\* whether throwOnError is set to true in the options of withDefer
ThrowOnErrorSet == Truthy(Get(globalOptions, "throwOnError"))

\* C4: with throwOnError true and the main function returning normally, k >= 1
\* records that ended in failure make the invocation reject with one aggregate
\* error that says 'k deferred functions failed' and carries k errors, whatever
\* was thrown; with k = 0 the invocation resolves.
C4_AggregateCountsFailures ==
    (pcRun = "done" /\ ThrowOnErrorSet /\ mainResult.kind = "return") =>
        LET k == Cardinality(Failed)
        IN  IF k >= 1
            THEN /\ outcome.state = "rejected"
                 /\ outcome.value.t = "aggregate"
                 /\ Len(outcome.value.errors) = k
                 /\ outcome.value.message = <<ToString(k), " deferred functions failed">>
            ELSE outcome = Fulfilled(MainValue)

\* C5: with throwOnError false or unset and the main function returning
\* normally, the invocation resolves with the main function's return value,
\* whatever the records did.
C5_NeverRejectsWithoutThrowOnError ==
    (pcRun = "done" /\ ~ThrowOnErrorSet /\ mainResult.kind = "return") =>
        outcome = Fulfilled(MainValue)

C5_Witness ==
    /\ pcRun = "done" /\ ~ThrowOnErrorSet /\ mainResult.kind = "return"
    /\ outcome = Fulfilled(MainValue)
    /\ \E id \in Failed : how[id] = "timedout"
    /\ cancelBefore # {}
    /\ \E k \in 1..Len(reports) : reporterThrows(reports[k].reporter)

\* C6: when the main function returns v and executeDeferredFunctions raises no
\* aggregate error, the invocation resolves to v; and it resolves only once
\* every record has been handled and its promise resolved.
C6_ResolvesToMainValue ==
    /\ (pcRun = "done" /\ mainResult.kind = "return" /\ execThrown = NoThrow) =>
          outcome = Fulfilled(MainValue)
    /\ outcome.state = "fulfilled" =>
          /\ Len(results) = Cardinality(Registered)
          /\ \A id \in Registered : id \in DOMAIN how /\ promise[id].state = "fulfilled"

C6_Witness ==
    /\ outcome = Fulfilled(MainValue)
    /\ Cardinality(Registered) = MaxDefer
    /\ Failed # {}
    /\ \E id \in Registered : how[id] = "success"

\* C7: a record cancel() was called on before the drain reached it never has
\* its callback invoked, gets its promise resolved with the cancellation
\* marker when the drain reaches it, which it does before the invocation
\* settles, and no reporter is called for it.
C7_CancelledNeverRuns ==
    \A id \in cancelBefore :
        /\ id \notin Range(invoked)
        /\ ReportsFor(id) = {}
        /\ id \in reached => how[id] = "cancelled" /\ promise[id] = Fulfilled(CancelMarker)
        /\ pcRun = "done" => id \in reached

\* record 1 was cancelled once, during the drain, while record 2 was handled
C7_Witness ==
    /\ pcRun = "done"
    /\ cancelSeen = {"draining"}
    /\ cancelBefore = {1}
    /\ promise[1] = Fulfilled(CancelMarker)
    /\ invoked = <<2>>
    /\ Truthy(Get(globalOptions, "errorReporter"))

\* what handleDeferred does with a record that is not cancelled
Uncancelled(id) ==
    /\ id \in Range(invoked)
    /\ how[id] = "success" =>
          promise[id].value \in {Val(id), ReturnedError(id)} /\ ReportsFor(id) = {}
    /\ how[id] = "failed" =>
          promise[id].value \in {CallbackError(id), ThrownString(id)}
    /\ how[id] = "timedout" => promise[id].value = TimeoutError
    /\ how[id] \in {"failed", "timedout"} =>
          Cardinality(ReportsFor(id)) =
              IF Truthy(Get(globalOptions, "errorReporter")) THEN 1 ELSE 0
    /\ how[id] \in {"success", "failed", "timedout"}
    /\ promise[id].state = "fulfilled"
    /\ \A k \in 1..Len(results) :
          deferredArray[k] = id => results[k] = Fulfilled(promise[id].value)

\* C8: cancel() called only after handleDeferred was called for the record
\* changes nothing: the record is handled as one that is not cancelled.
C8_LateCancelHasNoEffect ==
    \A id \in DOMAIN how :
        (deferred[id].isCancelled /\ id \notin cancelBefore) => Uncancelled(id)

\* a record cancelled while its callback was awaited, which then succeeded
C8_Witness ==
    /\ pcRun = "done"
    /\ "finished" \notin cancelSeen
    /\ \E id \in DOMAIN how :
          /\ deferred[id].isCancelled /\ id \notin cancelBefore
          /\ how[id] = "success"

\* C9: cancel() is idempotent: a cancelled record stays cancelled whatever is
\* called afterwards, and a step that changes the flag of a record the drain
\* is through with changes no promise, result, reporter call or outcome.
C9_CancelIdempotent ==
    [][/\ \A id \in DOMAIN deferred :
              deferred[id].isCancelled => deferred'[id].isCancelled
       /\ (\E id \in DOMAIN how : deferred'[id].isCancelled # deferred[id].isCancelled)
              => UNCHANGED <<promise, results, reports, how, invoked, outcome,
                             execThrown>>]_vars

C9_Witness ==
    /\ pcRun = "done"
    /\ {"again", "finished"} \subseteq cancelSeen

\* C10: once the drain has begun, a call of defer() throws, queues nothing,
\* and no callback runs that was not queued when the drain began.
C10_NoDeferOnceDraining ==
    /\ isExecuting => deferQueue = deferredArray
    /\ Range(invoked) \subseteq Range(deferredArray)
    /\ \A t \in deferThrown :
          t.phase \in {"draining", "settled"} => t.thrown = ExecutingError

C10_Witness ==
    /\ Len(deferQueue) >= 1
    /\ \E t \in deferThrown : t.phase = "draining" /\ t.thrown = ExecutingError
    /\ \E t \in deferThrown : t.phase = "settled" /\ t.thrown = ExecutingError

\* C11: a call of defer() made at any point after the main function has
\* completed queues nothing, also when it is made between the completion of
\* the main function and the step at which executeDeferredFunctions sets
\* isExecuting.
C11_NoRegistrationAfterMain ==
    [][mainResult.kind # "none" =>
          deferQueue' = deferQueue /\ DOMAIN deferred' = DOMAIN deferred]_vars

\* the position of record id in the drain's array, from 1
PositionOf(id) == CHOOSE k \in 1..Len(deferredArray) : deferredArray[k] = id
TimedOut == {id \in DOMAIN how : how[id] = "timedout"}

\* C12: when the timer of a record fires before its callback has settled, the
\* record ends as a timeout failure: its reporter, when one is configured, is
\* called exactly once, with the 'timeout exceeded' error; its promise
\* resolves with that error; handleDeferred returns, so that the drain goes on
\* to the next record; and the invocation still resolves with the main
\* function's return value when the main function returned and throwOnError
\* is off.
C12_TimeoutFailure ==
    /\ (h.pc = "race" /\ h.byTimer) => h.race = Rejected(TimeoutError)
    /\ \A id \in TimedOut :
          /\ promise[id] = Fulfilled(TimeoutError)
          /\ Cardinality(ReportsFor(id)) =
                IF Truthy(Get(globalOptions, "errorReporter")) THEN 1 ELSE 0
          /\ \A k \in ReportsFor(id) :
                reports[k].err = TimeoutError /\ reports[k].action = "timed out"
          /\ h.id = id => h.pc = "returned" /\ h.result = Fulfilled(TimeoutError)
          /\ Len(results) >= PositionOf(id) => results[PositionOf(id)] = Fulfilled(TimeoutError)
          /\ pcRun \in {"drainSettled", "done"} => Range(deferredArray) \subseteq DOMAIN how
    /\ (pcRun = "done" /\ TimedOut # {} /\ mainResult.kind = "return" /\ ~ThrowOnErrorSet)
          => outcome = Fulfilled(MainValue)

\* the newest record times out with its callback still pending; the drain goes
\* on to the older record, whose callback succeeds
C12_Witness ==
    /\ pcRun = "done"
    /\ Cardinality(Registered) = MaxDefer
    /\ how[MaxDefer] = "timedout"
    /\ MaxDefer \in inflight
    /\ how[1] = "success"
    /\ Cardinality(ReportsFor(MaxDefer)) = 1
    /\ outcome = Fulfilled(MainValue)

\* the records whose resolved timeout is zero, negative, null or unset
Untimed == {id \in DOMAIN deferred : ~(deferred[id].timeout.t = "number" /\ deferred[id].timeout.n > 0)}

\* C13: a record whose resolved timeout is zero, negative, null or unset never
\* has a timer started and never ends as a timeout failure: handleDeferred
\* waits for the callback itself, so the record is handled only once its
\* callback has settled, and its promise never holds the timeout error.
C13_NoTimerWithoutPositiveTimeout ==
    \A id \in Untimed :
        /\ id \notin timers
        /\ h.id = id => ~h.timeoutId /\ ~h.byTimer
        /\ (h.id = id /\ h.pc = "race" /\ id \in inflight) => h.race = Pending
        /\ id \in DOMAIN how =>
              /\ how[id] # "timedout"
              /\ id \notin inflight
              /\ promise[id] # Fulfilled(TimeoutError)
              /\ \A k \in ReportsFor(id) : reports[k].action # "timed out"

\* under a global timeout of 1, a record registered with timeout 0 and one
\* registered with timeout null were handled when their callbacks settled
C13_Witness ==
    /\ pcRun = "done"
    /\ Get(globalOptions, "timeout") = Num(1)
    /\ \E id \in Untimed : deferred[id].timeout = NullV /\ how[id] = "success"
    /\ \E id \in Untimed : deferred[id].timeout = Num(0) /\ how[id] = "failed"

\* C14: once the timer of a record has fired before its callback settled, the
\* later settlement of the callback changes nothing: the race stays rejected
\* with the timeout error and the record ends as a timeout failure; after
\* that its promise, its outcome and the reporter calls made for it stay as
\* they are, and the step in which its callback settles changes no promise,
\* no result, no reporter call, no aggregate error and not the outcome.
C14_LateSettlementIgnored ==
    [][/\ (h.pc = "race" /\ h.byTimer) =>
             /\ h'.pc = "race" => h' = h
             /\ h'.pc # "race" => h.id \in DOMAIN how' /\ how'[h.id] = "timedout"
       /\ \A id \in TimedOut :
             /\ how'[id] = "timedout"
             /\ promise'[id] = promise[id]
             /\ {k \in 1..Len(reports') : reports'[k].id = id} = ReportsFor(id)
             /\ (id \in inflight /\ id \notin inflight') =>
                   UNCHANGED <<promise, results, reports, how, h, execThrown,
                               outcome, pcRun>>]_vars

\* the callback of a record that timed out has settled afterwards, under
\* throwOnError, and the aggregate error counts the one failure
C14_Witness ==
    /\ pcRun = "done"
    /\ ThrowOnErrorSet
    /\ \E id \in TimedOut : id \notin inflight /\ promise[id] = Fulfilled(TimeoutError)
    /\ Cardinality(TimedOut) = 1 /\ Failed = TimedOut
    /\ outcome.state = "rejected" /\ Len(outcome.value.errors) = 1

\* the values handleDeferred may resolve the promise of record id with, by
\* the way the record ended
SettleValues(id, ending) ==
    CASE ending = "cancelled" -> {CancelMarker}
      [] ending = "success" -> {Val(id), ReturnedError(id)}
      [] ending = "failed" -> {CallbackError(id), ThrownString(id)}
      [] ending = "timedout" -> {TimeoutError}

\* C15: the promise of every record is resolved exactly once and never
\* rejected: it is pending until handleDeferred is through with the record,
\* then fulfilled with the callback's return value, the cancellation marker,
\* or the error of the failure or timeout, and it never changes afterwards;
\* and when the invocation's promise settles, the promise of every record is
\* resolved.
C15_SettleHandleResolvedOnce ==
    /\ [](\A id \in DOMAIN promise :
             /\ promise[id].state # "rejected"
             /\ promise[id].state = "fulfilled" <=> id \in DOMAIN how
             /\ id \in DOMAIN how => promise[id].value \in SettleValues(id, how[id]))
    /\ [](outcome.state # "pending" =>
             \A id \in Registered : promise[id].state = "fulfilled")
    /\ [][\A id \in DOMAIN promise :
             promise[id].state # "pending" => promise'[id] = promise[id]]_vars

\* the invocation rejected with the aggregate error after one record was
\* cancelled and the other failed; the promises of both are fulfilled
C15_Witness ==
    /\ pcRun = "done"
    /\ outcome.state = "rejected"
    /\ \E id \in Registered : promise[id] = Fulfilled(CancelMarker)
    /\ \E id \in Registered : promise[id] = Fulfilled(CallbackError(id))

NoDuplicates(seq) == \A j, k \in 1..Len(seq) : seq[j] = seq[k] => j = k

\* C16: every record for which defer() returned a handle is processed by the
\* drain exactly once, cancelled or not: the drain's array holds each
\* registered record once, handleDeferred is called for its entries one after
\* the other, no callback is invoked twice, and when the drain is over the
\* records it has processed are the records registered.
C16_EveryRecordDrainedOnce ==
    /\ [](/\ NoDuplicates(deferQueue) /\ Range(deferQueue) = Registered
          /\ NoDuplicates(invoked)
          /\ reached \subseteq Registered
          /\ isExecuting =>
                /\ deferredArray = deferQueue
                /\ Len(results) = idx
                /\ reached = {deferredArray[k] :
                                 k \in {j \in 1..Len(deferredArray) : j <= idx + 1}}
                /\ pcRun = "drain" => h.id = deferredArray[idx + 1]
          /\ pcRun \in {"drainSettled", "done"} =>
                /\ reached = Registered /\ DOMAIN how = Registered
                /\ Len(results) = Cardinality(Registered))
    /\ [][isExecuting => idx' \in {idx, idx + 1}]_vars

\* two records, the newer one cancelled, both processed
C16_Witness ==
    /\ pcRun = "done"
    /\ Cardinality(Registered) = MaxDefer
    /\ how[MaxDefer] = "cancelled"
    /\ how[1] # "cancelled"
    /\ reached = Registered
    /\ Len(results) = MaxDefer

\* the handling of record id is complete: handleDeferred has resolved its
\* promise and returned, after calling the reporter when the record failed,
\* and its callback has settled unless its timer fired first
HandlingComplete(id) ==
    /\ id \in DOMAIN how
    /\ promise[id].state = "fulfilled"
    /\ (h.id = id => h.pc = "returned")
    /\ (how[id] \in {"failed", "timedout"} /\ Truthy(Get(globalOptions, "errorReporter")))
          => ReportsFor(id) # {}
    /\ id \in inflight => how[id] = "timedout"

\* C17: the drain is sequential: handleDeferred is not called for the record
\* at position i+1 of the drain's array, and its callback is not invoked,
\* until the handling of the record at position i is complete; so callbacks
\* that do not time out complete in the order of the array, newest first.
C17_DrainIsSequential ==
    \A k \in 1..Len(deferredArray) :
        (deferredArray[k] \in reached) =>
            \A j \in 1..(k - 1) : HandlingComplete(deferredArray[j])

\* the older record's callback is awaited after the newer record's callback,
\* which took its time, has settled
C17_Witness ==
    /\ pcRun = "drain"
    /\ Len(deferredArray) = MaxDefer
    /\ deferredArray[1] \in DOMAIN how
    /\ how[deferredArray[1]] = "success"
    /\ deferred[deferredArray[1]].callback.kind = "async"
    /\ h.id = deferredArray[2] /\ h.pc = "race" /\ h.race = Pending
    /\ inflight = {deferredArray[2]}

\* C18: at every moment of the drain at most one deferred callback of the
\* invocation is in flight, invoked and not yet settled, also after a record
\* has timed out.
C18_AtMostOneInFlight == Cardinality(inflight) <= 1

\* C18, amended: at every moment of the drain at most one deferred callback
\* whose record has not timed out is in flight, and it is the callback of the
\* record handleDeferred is waiting for; the callbacks still in flight beside
\* it belong to records that timed out.
C18_AtMostOneAwaitedInFlight ==
    /\ Cardinality(inflight \ TimedOut) <= 1
    /\ \A id \in inflight \ TimedOut : h.id = id /\ h.pc = "race"

\* the callback of the newer record is still in flight after its timeout while
\* the callback of the older record is in flight too
C18_Witness ==
    /\ pcRun = "drain"
    /\ Cardinality(inflight) = 2
    /\ Cardinality(inflight \ TimedOut) = 1

\* the records of context c that the main function of invocation i registered
OwnRecords(c, i) ==
    {id \in DOMAIN c.deferred : c.deferred[id].functionName = InvocationName(i)}

\* C19: invocations of the same wrapped function are isolated: each one
\* drains the records registered through its own defer and no others; a
\* record ends as cancelled only when a handle of its own invocation was
\* cancelled; and a call of defer() by an invocation whose main function is
\* still running never fails because another invocation is draining.
C19_InvocationsIsolated ==
    /\ [](\A i \in Invocations :
             LET c == View(i)
             IN  /\ c.reached \cup Range(c.invoked) \cup Range(c.deferredArray)
                       \subseteq OwnRecords(c, i)
                 /\ DOMAIN c.deferred = OwnRecords(c, i)
                 /\ c.pcRun = "done" => c.reached = OwnRecords(c, i)
                 /\ \A id \in DOMAIN c.how :
                       c.how[id] = "cancelled" <=> id \in c.cancelBefore)
    /\ [][(cur' = cur /\ pcRun = "main") =>
             /\ deferThrown' = deferThrown
             /\ isExecuting' = isExecuting \/ pcRun' # "main"]_vars

\* both invocations have settled: the record of the first one was cancelled,
\* the callback of the second one ran
C19_Witness ==
    /\ \A i \in Invocations : View(i).pcRun = "done"
    /\ View(1).how = (1 :> "cancelled") /\ View(1).invoked = <<>>
    /\ View(2).how = (1 :> "success") /\ View(2).invoked = <<1>>
    /\ View(2).deferThrown = {}

\* C20: nested invocations do not share queues: when the main function of the
\* outer invocation awaits an inner invocation, every record of the inner one
\* is drained before its promise settles, and so before any record of the
\* outer one is drained; each invocation drains its own records only; and
\* defer() of the outer invocation does not fail while its main function is
\* running, also after the inner invocation has drained.
C20_NestedInvocationsSeparate ==
    /\ [](/\ View(Inner).outcome.state # "pending" =>
                /\ View(Inner).reached = DOMAIN View(Inner).deferred
                /\ \A id \in DOMAIN View(Inner).deferred :
                      View(Inner).promise[id].state = "fulfilled"
          /\ (View(Outer).isExecuting \/ View(Outer).reached # {}) =>
                \/ View(Inner).pcRun = "idle"
                \/ /\ View(Inner).pcRun = "done"
                   /\ View(Inner).reached = DOMAIN View(Inner).deferred
          /\ \A i \in Invocations :
                /\ View(i).reached \cup Range(View(i).invoked)
                      \cup Range(View(i).deferredArray) \subseteq OwnRecords(View(i), i)
                /\ View(i).pcRun = "done" => View(i).reached = OwnRecords(View(i), i))
    /\ [][(cur' = cur /\ cur = Outer /\ pcRun = "main") =>
             deferThrown' = deferThrown]_vars

\* the inner invocation has drained its record and settled while the main
\* function of the outer one, which registers after that, was running; then
\* the outer invocation has drained its own record
C20_Witness ==
    /\ \A i \in Invocations : View(i).pcRun = "done"
    /\ View(Inner).invoked = <<1>> /\ View(Inner).how = (1 :> "success")
    /\ View(Outer).invoked = <<1>> /\ View(Outer).how = (1 :> "success")
    /\ View(Outer).deferThrown = {}
    /\ View(Outer).outcome = Fulfilled(MainValue)

\* C21: the drain never stops early: when the callback of a record throws,
\* rejects or times out, the drain is not over until every record after it
\* in the drain's array has been processed as well: its callback invoked
\* unless it was cancelled, and its promise resolved.
C21_DrainNeverAborts ==
    /\ pcRun = "drain" => execThrown = NoThrow /\ idx < Len(deferredArray)
    /\ (pcRun \in {"drainSettled", "done"} /\ Failed # {}) =>
          /\ Len(results) = Len(deferredArray)
          /\ \A id \in Failed :
                \A k \in (PositionOf(id) + 1)..Len(deferredArray) :
                    LET later == deferredArray[k]
                    IN  /\ later \in DOMAIN how
                        /\ promise[later].state = "fulfilled"
                        /\ later \notin cancelBefore => later \in Range(invoked)

\* the newest record failed, the older one was processed after it and
\* succeeded
C21_Witness ==
    /\ pcRun = "done"
    /\ Len(deferredArray) = MaxDefer
    /\ deferredArray[1] \in Failed
    /\ how[deferredArray[MaxDefer]] = "success"
    /\ invoked = deferredArray

\* the records whose promise holds an instance of Error
ErrorValued == {id \in DOMAIN how : InstanceOfError(promise[id].value)}

\* C22: an exception raised inside an error reporter never propagates:
\* handleDeferred still returns the original error and resolves the promise
\* of the failing record with it, the drain goes through the remaining
\* records, and the invocation's result is what the results of the records
\* make it, as with a reporter that does not throw: the main function's value,
\* or under throwOnError the aggregate error with one entry per Error result.
C22_ReporterExceptionContained ==
    reporterThrows(Coalesce(Get(globalOptions, "errorReporter"), Fn("", "none"))) =>
        /\ h.pc = "returned" => h.result.state = "fulfilled"
        /\ \A k \in 1..Len(results) : results[k].state = "fulfilled"
        /\ \A id \in Failed :
              /\ promise[id].state = "fulfilled"
              /\ promise[id].value \in SettleValues(id, how[id])
              /\ Cardinality(ReportsFor(id)) = 1
        /\ pcRun \in {"drainSettled", "done"} => DOMAIN how = Registered
        /\ (pcRun = "done" /\ mainResult.kind = "return") =>
              IF ThrowOnErrorSet /\ ErrorValued # {}
              THEN /\ outcome.state = "rejected"
                   /\ outcome.value.t = "aggregate"
                   /\ Len(outcome.value.errors) = Cardinality(ErrorValued)
              ELSE outcome = Fulfilled(MainValue)

\* under throwOnError, the reporter threw for the newest record, the older
\* record was drained and succeeded, and the aggregate error counts one
C22_Witness ==
    /\ pcRun = "done"
    /\ reporterThrows(Coalesce(Get(globalOptions, "errorReporter"), Fn("", "none")))
    /\ ThrowOnErrorSet
    /\ Len(deferredArray) = MaxDefer
    /\ how[deferredArray[1]] = "failed"
    /\ how[deferredArray[MaxDefer]] = "success"
    /\ Len(reports) = 1
    /\ outcome.state = "rejected" /\ Len(outcome.value.errors) = 1

\* the option of record id under key: the one given to defer() when the key
\* is given there, otherwise the one given to withDefer; absent reads as
\* undefined
GivenOption(id, key) ==
    LET lo == registration[id].localOptions
    IN  IF lo.t = "object" /\ key \in DOMAIN lo.props THEN lo.props[key]
        ELSE IF globalOptions.t = "object" /\ key \in DOMAIN globalOptions.props
        THEN globalOptions.props[key]
        ELSE Undef
\* the effective value: null and undefined give the default
EffectiveOption(id, key, default) ==
    IF GivenOption(id, key).t \in {"null", "undefined"} THEN default
    ELSE GivenOption(id, key)
EffectiveReporter(id) == EffectiveOption(id, "errorReporter", NullV)

\* C23: the effective error reporter of a record is called exactly once for
\* the record when it fails or times out, whether an Error or another value
\* was thrown, and no reporter is called for a record that succeeded, was
\* cancelled or is not handled yet, nor for a failure of the main function.
C23_ReporterOncePerFailure ==
    /\ \A id \in Registered :
          /\ Cardinality(ReportsFor(id)) =
                IF id \in Failed /\ EffectiveReporter(id).t = "function" THEN 1 ELSE 0
          /\ \A k \in ReportsFor(id) :
                /\ reports[k].reporter = EffectiveReporter(id)
                /\ reports[k].err = promise[id].value
    /\ \A k \in 1..Len(reports) : reports[k].id \in Failed
    /\ Failed = {} => reports = <<>>

\* the main function failed and the record threw a string: one call of the
\* reporter, for the record
C23_Witness ==
    /\ pcRun = "done"
    /\ mainResult.kind = "throw"
    /\ Len(reports) = 1
    /\ reports[1].err = ThrownString(1)
    /\ reports[1].reporter = okReporter

\* C24: the options given to defer() win over the options given to withDefer
\* for timeout, errorReporter and debug: the record holds the value given to
\* defer() whenever the key is given there, an explicit null giving the
\* default; otherwise the value given to withDefer; otherwise the default.
\* A failing record with a reporter of its own is reported to that reporter
\* and never to the reporter of withDefer.
C24_LocalOptionsWin ==
    /\ \A id \in Registered :
          /\ deferred[id].timeout = EffectiveOption(id, "timeout", NullV)
          /\ deferred[id].debug = EffectiveOption(id, "debug", Bool(FALSE))
          /\ ~isExecuting =>
                deferred[id].errorReporter = EffectiveReporter(id)
          /\ h.id = id =>
                h.errorReporter = EffectiveReporter(id) \/ h.pc = "returned"
    /\ \A k \in 1..Len(reports) :
          LET lo == registration[reports[k].id].localOptions
          IN  (lo.t = "object" /\ "errorReporter" \in DOMAIN lo.props) =>
                  /\ reports[k].reporter = lo.props["errorReporter"]
                  /\ reports[k].reporter # Get(globalOptions, "errorReporter")

\* under options of withDefer that set a reporter, a timeout and debug, the
\* record registered with its own reporter, timeout 0 and debug failed and
\* was reported to its own reporter
C24_Witness ==
    /\ pcRun = "done"
    /\ Get(globalOptions, "errorReporter") = okReporter
    /\ Len(reports) = 1
    /\ reports[1].reporter = localReporter
    /\ deferred[1].timeout = Num(0)
    /\ Get(globalOptions, "timeout") = Num(1)

\* the value the merged options hold under key for a call defer(_, lo)
MergedField(lo, key) ==
    IF lo.t = "object" /\ key \in DOMAIN lo.props THEN lo.props[key]
    ELSE Get(globalOptions, key)
\* the call defer(callback, lo) fails validation
FailsValidation(callback, lo) ==
    \/ callback.t # "function"
    \/ lo.t \notin {"undefined", "null", "object"}
    \/ /\ MergedField(lo, "timeout").t \notin {"null", "undefined"}
       /\ ~(MergedField(lo, "timeout").t = "number" /\ MergedField(lo, "timeout").finite)
    \/ MergedField(lo, "debug").t \notin {"undefined", "boolean"}
    \/ MergedField(lo, "throwOnError").t \notin {"undefined", "boolean"}
    \/ MergedField(lo, "errorReporter").t \notin {"null", "undefined", "function"}

\* C25: a call of defer() that fails validation throws at the call (a
\* TypeError, unless the drain has started and the call is refused as such),
\* appends no record, calls no reporter and changes nothing of the invocation
\* or of the records registered before it; no record ever comes from such a
\* call, and the records registered are all drained, each to the outcome of
\* its callback.
C25_FailedRegistrationChangesNothing ==
    /\ [][\A a \in RegistrationArgs :
            (FailsValidation(a[1], a[2]) /\ Defer(a[1], a[2])) =>
                /\ \E e \in deferThrown' :
                      /\ e.thrown # NoThrow
                      /\ e.phase = Phase
                      /\ e.queued = Len(deferQueue)
                      /\ ~isExecuting => e.thrown.src = TypeErrorObj(<<>>).src
                /\ UNCHANGED <<progVars, registration, reports, invoked, how>>]_vars
    /\ [](\A id \in DOMAIN registration :
            ~FailsValidation(registration[id].callback, registration[id].localOptions))
    /\ [](pcRun \in {"drainSettled", "done"} =>
            /\ DOMAIN how = Registered
            /\ \A id \in Registered :
                  /\ promise[id].state = "fulfilled"
                  /\ how[id] \in {"cancelled",
                                  IF registration[id].callback.kind = "returns"
                                  THEN "success" ELSE "failed"})

\* a record was registered, then a call of defer() threw a TypeError with
\* that record queued, and the record was drained, failed and was reported
C25_Witness ==
    /\ pcRun = "done"
    /\ Registered = {1}
    /\ how[1] = "failed"
    /\ Len(reports) = 1
    /\ \E e \in deferThrown :
          /\ e.queued = 1
          /\ e.phase = "running"
          /\ e.thrown = TypeErrorObj(<<"debug", " must be a boolean">>)

\* C26: null is a valid options argument of withDefer: the invocation of the
\* returned function does not fail for it, it runs the main function (it
\* leaves the idle phase into the running one) and then the drain with the
\* defaults: no throwOnError, no reporter, no timeout.
C26_NullOptionsRunWithDefaults ==
    globalOptions = NullV =>
        /\ pcRun # "aborted"
        /\ pcRun = "idle" => outcome = Pending
        /\ \A id \in Registered :
              /\ deferred[id].timeout = EffectiveOption(id, "timeout", NullV)
              /\ deferred[id].debug = EffectiveOption(id, "debug", Bool(FALSE))
        /\ reports = <<>>
        /\ (pcRun = "done" /\ mainResult.kind = "return") => outcome = Fulfilled(MainValue)

\* the failed records in the order of the drain
FailedInDrainOrder == SelectSeq(deferredArray, LAMBDA id : id \in Failed)

\* C27: the aggregate error holds one wrapped error per failed record, in the
\* order of the drain, and the i-th wrapped error has the value thrown by the
\* i-th failed record as its cause.
C27_AggregateListsFailuresInDrainOrder ==
    (pcRun = "done" /\ outcome.state = "rejected" /\ outcome.value.t = "aggregate") =>
        /\ Len(outcome.value.errors) = Len(FailedInDrainOrder)
        /\ \A i \in 1..Len(FailedInDrainOrder) :
              i <= Len(outcome.value.errors) =>
                  outcome.value.errors[i].cause = promise[FailedInDrainOrder[i]].value

\* C28: no timer is left behind: a timer of a record is pending only while
\* handleDeferred awaits the race of that record; once the record is handled,
\* whatever its outcome, none is pending for it, and none is pending when the
\* invocation has settled.
C28_NoTimerLeak ==
    /\ \A id \in timers :
          /\ h.id = id
          /\ h.pc = "race"
          /\ HasPositiveTimeout(deferred[id].timeout)
    /\ \A id \in DOMAIN how : id \notin timers
    /\ pcRun \in {"drainSettled", "done", "aborted"} => timers = {}

\* both records had a timer: the callback of one resolved and the callback
\* of the other rejected before the timer fired
C28_Witness ==
    /\ pcRun = "done"
    /\ Len(deferredArray) = MaxDefer
    /\ \A id \in Registered : HasPositiveTimeout(deferred[id].timeout)
    /\ how[deferredArray[1]] = "success"
    /\ how[deferredArray[MaxDefer]] = "failed"
    /\ timers = {}

\* the phases in their order
PhaseRank(p) ==
    CASE p = "idle" -> 0
      [] p = "running" -> 1
      [] p = "draining" -> 2
      [] p = "settled" -> 3
PhaseOf(run, executing) ==
    CASE run = "idle" -> "idle"
      [] run \in {"done", "aborted"} -> "settled"
      [] executing -> "draining"
      [] OTHER -> "running"

\* C29: an invocation goes through its phases forwards only, running, then
\* draining, then settled; isExecuting is set once, in the step that starts
\* the drain, before any callback was called, and is never cleared; no
\* callback is called while the invocation is running, and none is called
\* for the first time once the invocation has settled.
C29_PhasesOnlyForward ==
    /\ [][/\ PhaseRank(PhaseOf(pcRun', isExecuting')) >= PhaseRank(PhaseOf(pcRun, isExecuting))
          /\ PhaseOf(pcRun', isExecuting') = "settled" =>
                PhaseOf(pcRun, isExecuting) \in {"draining", "settled"}
                \/ pcRun' = "aborted"
          /\ isExecuting => isExecuting'
          /\ (~isExecuting /\ isExecuting') =>
                /\ PhaseOf(pcRun, isExecuting) = "running"
                /\ mainResult'.kind # "none"
                /\ invoked = <<>>
                /\ deferredArray' = deferQueue
          /\ PhaseOf(pcRun, isExecuting) = "settled" => invoked' = invoked]_vars
    /\ [](PhaseOf(pcRun, isExecuting) \in {"idle", "running"} =>
             invoked = <<>> /\ DOMAIN how = {})
    /\ [](pcRun \in {"drain", "drainSettled", "done"} => isExecuting)

\* the invocation has settled after a drain that called both callbacks
C29_Witness ==
    /\ pcRun = "done"
    /\ isExecuting
    /\ Len(invoked) = MaxDefer

\* the main function completes
MainCompletes == <>(mainResult.kind # "none")
\* the callback of every record that was called and has no timer settles
CallbacksSettleOrTimed ==
    \A id \in 1..MaxDefer :
        [](((id \in inflight /\ ~HasPositiveTimeout(deferred[id].timeout))
               => <>(id \notin inflight)))
\* the invocation has settled and the promise of every record is resolved
SettledAndResolved ==
    /\ pcRun = "done"
    /\ outcome.state # "pending"
    /\ \A id \in DOMAIN promise : promise[id].state = "fulfilled"

\* C30: when the main function completes and every record that is not
\* skipped as cancelled has a callback that settles or a positive timeout,
\* the invocation settles and the promise of every record is resolved, and
\* they stay so.  (A record whose cancel() is called after its callback
\* started is not skipped: its callback counts.)
C30_EventuallySettles ==
    (MainCompletes /\ CallbacksSettleOrTimed) => <>[]SettledAndResolved

\* the invocation settled although the callback of a record with a timeout
\* never settled: the timer ended its handling
C30_Witness ==
    /\ SettledAndResolved
    /\ Len(deferredArray) = MaxDefer
    /\ \E id \in inflight : how[id] = "timedout"
    /\ \E id \in Registered : how[id] = "success" /\ ~HasPositiveTimeout(deferred[id].timeout)

\* the records handleDeferred is waiting for with no timer: the callback has
\* been called and has not settled, and the resolved timeout is not positive
Hanging == inflight \cap Untimed
\* the records that come after id in the order of the drain
After(id) == {deferredArray[k] : k \in {j \in 1..Len(deferredArray) : j > PositionOf(id)}}

\* C31: as long as the callback of a record with no positive timeout has not
\* settled, the drain stands at that record: the records after it in the
\* order of the drain are not handled and their promises are pending, the
\* promise of the record is pending and the invocation has not settled; no
\* step that leaves the callback unsettled moves the drain or settles
\* anything.  A callback that never settles therefore blocks the drain for
\* good.
C31_HangingCallbackBlocksDrain ==
    /\ [](\A id \in Hanging :
            /\ pcRun = "drain"
            /\ deferredArray[idx + 1] = id
            /\ h.id = id /\ h.pc = "race" /\ h.race = Pending
            /\ id \notin timers
            /\ id \notin DOMAIN how
            /\ promise[id] = Pending
            /\ outcome = Pending
            /\ \A later \in After(id) :
                  /\ later \notin reached
                  /\ later \notin DOMAIN how
                  /\ later \notin Range(invoked)
                  /\ promise[later] = Pending)
    /\ [][\A id \in Hanging :
            id \in inflight' =>
                UNCHANGED <<pcRun, idx, results, h, promise, outcome, invoked,
                            how, reached, reports, execThrown>>]_vars

\* under a timeout of 1 given to withDefer, the record registered with
\* timeout 0 is awaited with no timer and the record after it waits
C31_Witness ==
    /\ Len(deferredArray) = MaxDefer
    /\ Get(globalOptions, "timeout") = Num(1)
    /\ deferredArray[1] \in Hanging
    /\ deferred[deferredArray[1]].timeout = Num(0)
    /\ After(deferredArray[1]) # {}
    /\ \E id \in DOMAIN deferred : deferred[id].isCancelled

\* the record is one of those handleErrors keeps: executeDeferredFunctions
\* hands it the settled value of the record's handleDeferred call
CountedByAggregator(id) == isCountedError(results[PositionOf(id)].value)

\* C32: once the drain is over, a record is counted as failed by handleErrors
\* exactly when handleDeferred went through its catch block for it (its
\* callback threw, rejected or timed out), whatever value was returned or
\* thrown; so under throwOnError an invocation whose main function returned
\* rejects with the aggregate error exactly when some record failed.
C32_CountedIffFailed ==
    pcRun \in {"drainSettled", "done"} =>
        /\ \A id \in Registered : CountedByAggregator(id) <=> id \in Failed
        /\ (pcRun = "done" /\ ThrowOnErrorSet /\ mainResult.kind = "return") =>
              (outcome.state = "rejected" <=> Failed # {})

\* C33: a failure is reported as 'timed out' exactly when the timer of the
\* record fired before its callback settled; a record with no positive
\* timeout, and a record whose callback failed before the timer fired, is
\* reported as 'failed to execute', whatever its callback threw.
C33_TimedOutIffTimerFired ==
    \A k \in 1..Len(reports) :
        /\ reports[k].action \in {"timed out", "failed to execute"}
        /\ reports[k].action = "timed out" <=> how[reports[k].id] = "timedout"
        /\ reports[k].id \in Untimed => reports[k].action = "failed to execute"

\* the label of a record: the name of the callback it was registered with
LabelOf(id) ==
    IF registration[id].callback.name # "" THEN registration[id].callback.name
    ELSE "anonymous"
\* the index and the label a diagnostic message names
IndexIn(message) == message[3]
LabelIn(message) == message[5]
\* the records whose settled value is an Error, in the order of the drain:
\* the j-th wrapped error is made from the j-th of them
ErrorValuedInDrainOrder == SelectSeq(deferredArray, LAMBDA id : id \in ErrorValued)

\* C34: for a failing record, the index the reporter is given, the index in
\* the reporter's message and the index in the message of the record's
\* wrapped error are the record's position in the order of the drain, from 0,
\* and the label in both messages is the label of that record, whatever the
\* records before it did.
C34_IndexAndLabelOfFailingRecord ==
    /\ \A k \in 1..Len(reports) :
          LET id == reports[k].id
          IN  /\ reports[k].index = PositionOf(id) - 1
              /\ IndexIn(reports[k].message) = ToString(PositionOf(id) - 1)
              /\ LabelIn(reports[k].message) = LabelOf(id)
              /\ reports[k].message[1] = "error"
    /\ (pcRun = "done" /\ outcome.state = "rejected" /\ outcome.value.t = "aggregate") =>
          /\ Len(outcome.value.errors) = Len(ErrorValuedInDrainOrder)
          /\ \A j \in 1..Len(ErrorValuedInDrainOrder) :
                LET id == ErrorValuedInDrainOrder[j]
                    wrapped == outcome.value.errors[j]
                IN  id \in Failed =>
                       /\ wrapped.cause = promise[id].value
                       /\ IndexIn(wrapped.message) = ToString(PositionOf(id) - 1)
                       /\ LabelIn(wrapped.message) = LabelOf(id)
                       /\ wrapped.message[1] = "promise rejection"

\* the record drained first succeeded and the one drained second failed: the
\* reporter and the wrapped error name index 1 and the label of the second
C34_Witness ==
    /\ pcRun = "done"
    /\ Len(deferredArray) = MaxDefer
    /\ how[deferredArray[1]] = "success"
    /\ how[deferredArray[2]] = "failed"
    /\ LabelOf(deferredArray[1]) # LabelOf(deferredArray[2])
    /\ Len(reports) = 1
    /\ reports[1].index = 1
    /\ outcome.state = "rejected"
    /\ Len(outcome.value.errors) = 1
    /\ IndexIn(outcome.value.errors[1].message) = "1"
    /\ LabelIn(outcome.value.errors[1].message) = "alpha"

\* the throwOnError a record was registered with
LocalThrowOnError(id) == Get(registration[id].localOptions, "throwOnError")

InvalidField(key, v) ==
    CASE key = "timeout" ->
            v.t \notin {"null", "undefined"} /\ ~(v.t = "number" /\ v.finite)
      [] key \in {"debug", "throwOnError"} -> v.t \notin {"undefined", "boolean"}
      [] key = "errorReporter" -> v.t \notin {"null", "undefined", "function"}
\* the fields of the options of withDefer that are invalid
InvalidGlobalKeys ==
    {key \in {"timeout", "debug", "throwOnError", "errorReporter"} :
        InvalidField(key, Get(globalOptions, key))}
\* the options lo of a defer() call give every such field a value of their own
Overrides(lo) == lo.t = "object" /\ InvalidGlobalKeys \subseteq DOMAIN lo.props

\* C36: the fields of the options of withDefer are checked by defer() only.
\* With an invalid field there the invocation still starts; when its main
\* function registers nothing it settles as the main function does; every
\* call of defer() that does not override the field throws and queues
\* nothing, so every record there is comes from a call that overrode it.
C36_GlobalFieldsCheckedAtRegistration ==
    /\ [](InvalidGlobalKeys # {} =>
            /\ validateOptionsObject(globalOptions) = NoThrow
            /\ pcRun # "aborted"
            /\ (pcRun = "done" /\ Registered = {}) =>
                  outcome = IF mainResult.kind = "return" THEN Fulfilled(MainValue)
                            ELSE Rejected(MainError)
            /\ \A id \in DOMAIN registration : Overrides(registration[id].localOptions))
    /\ [][\A a \in RegistrationArgs :
            (InvalidGlobalKeys # {} /\ ~Overrides(a[2]) /\ Defer(a[1], a[2])) =>
                /\ \E e \in deferThrown' :
                      e.thrown # NoThrow /\ e.phase = Phase /\ e.queued = Len(deferQueue)
                /\ UNCHANGED <<deferQueue, deferred, promise, registration>>]_vars

\* with a non-finite timeout given to withDefer, a main function whose only
\* call of defer() threw the TypeError returned and the invocation resolved
C36_Witness ==
    /\ pcRun = "done"
    /\ Get(globalOptions, "timeout") = NonFinite
    /\ Registered = {}
    /\ deferThrown = {[thrown |-> TypeErrorObj(<<"timeout must be a finite number or null">>),
                       phase |-> "running", queued |-> 0]}
    /\ outcome = Fulfilled(MainValue)

\* the three references of a record are released
Released(id) ==
    /\ deferred[id].callback = NullV
    /\ deferred[id].resolve = NullV
    /\ deferred[id].errorReporter = NullV
\* the three references of a record are the ones it was registered with
Retained(id) ==
    /\ deferred[id].callback = registration[id].callback
    /\ deferred[id].resolve.t = "function"
    /\ deferred[id].errorReporter = EffectiveReporter(id)

\* C37: once the drain has handled every record, the callback, the resolve
\* function and the reporter of every record are released, whether or not
\* the drain raises the aggregate error; until then every record keeps the
\* three it was registered with; the label of a record is never released,
\* and the messages of the reporter calls and of the wrapped errors carry it.
C37_ReferencesReleasedAfterDrain ==
    /\ pcRun \in {"drainSettled", "done"} =>
          /\ DOMAIN how = Registered
          /\ \A id \in Registered : Released(id)
    /\ pcRun \in {"idle", "main", "mainSettled", "drain"} =>
          \A id \in Registered : Retained(id)
    /\ \A id \in Registered : deferred[id].functionName = LabelOf(id)
    /\ \A k \in 1..Len(reports) : LabelIn(reports[k].message) = LabelOf(reports[k].id)
    /\ execThrown # NoThrow =>
          \A j \in 1..Len(execThrown.errors) :
              LabelIn(execThrown.errors[j].message) = LabelOf(ErrorValuedInDrainOrder[j])

\* the drain raised the aggregate error and both records are released
C37_Witness ==
    /\ pcRun = "done"
    /\ outcome.state = "rejected"
    /\ outcome.value.t = "aggregate"
    /\ Len(outcome.value.errors) = MaxDefer
    /\ Cardinality(Registered) = MaxDefer
    /\ \A id \in Registered : Released(id) /\ deferred[id].functionName = LabelOf(id)
    /\ Len(reports) = MaxDefer

=============================================================================
